---- MODULE Spec2Model ----
(***************************************************************************)
(* Model of the sonic-4337-bundler core: the MempoolManager (in-memory     *)
(* maps written through to the DatabaseManager), the sqlite store          *)
(* (user_operations and bundles tables) and the BundleExecutor tick        *)
(* (executeBundle), whose awaits are the points at which other handlers    *)
(* of the Node.js event loop interleave, and the eth_sendUserOperation     *)
(* handler (SendUserOperationMethod.execute with the validator's steps).   *)
(***************************************************************************)
EXTENDS Integers, Sequences, FiniteSets, TLC

\* ------------------------------------------------------------------ bounds
MaxTx == 2          \* on-chain submissions (handleOps transactions) explored
NumCallers == 2     \* executeBundle activations that may overlap
MaxEvents == 3      \* events from outside explored: mempool calls that change
                    \* the maps, store and chain calls that fail, restarts
NumRequests == 2    \* eth_sendUserOperation requests that may overlap
MaxPending == 11    \* operations pending in the mempool when a tick starts
MaxNonce == 2       \* largest account nonce the chain reports
MaxTime == 2        \* seconds of CURRENT_TIMESTAMP explored
MaxBatch == 2       \* requests in one batch
MaxStored == 101    \* rows the store holds when the process starts
MaxLen == 3         \* code units of a string sent in a field of an operation
MaxCallData == 4    \* bytes of callData of an operation whose gas is estimated
MaxLowFee == 1      \* operations of a filled mempool that offer the lower fee

\* ------------------------------------------------------- program constants
MaxBundleSize == 10 \* sortedUserOps.slice(0, 10)
PendingLimit == 100 \* getPendingUserOperations(limit: number = 100)
AddressLength == 40 \* strValue.padStart(40, '0').slice(0, 40)

\* ------------------------------------------------------------ the universe
\* UserOperations a client may send.  hash is the EntryPoint's getUserOpHash
\* of the operation; nonce is the hex string the operation carries.  The
\* first two are different operations with the same sender and nonce; the
\* third is of the same account, written in lower case, with the next nonce.
UserOps ==
    { [hash |-> "h1", sender |-> "0xA", nonce |-> "0x00", maxFeePerGas |-> 2],
      [hash |-> "h2", sender |-> "0xA", nonce |-> "0x00", maxFeePerGas |-> 1],
      [hash |-> "h3", sender |-> "0xa", nonce |-> "0x01", maxFeePerGas |-> 2] }

Hashes == { u.hash : u \in UserOps }
Callers == 1..NumCallers
Requests == 1..NumRequests

\* String.prototype.toLowerCase on the address strings of the universe
toLowerCase(s) == IF s = "0xA" THEN "0xa" ELSE IF s = "0xEP" THEN "0xep" ELSE s

LowerSenders == { toLowerCase(u.sender) : u \in UserOps }

NULL == "null"            \* a null receipt
NoReceipt == "none"       \* the local receipt before waitForTransaction resolved

VARIABLES
    inMemoryMempool,   \* Map<string, UserOperation>, in insertion order
    senderNonces,      \* Map<string, Set<string>>: lowercased sender -> nonces
    user_operations,   \* rows of table user_operations, in insertion order
    bundles,           \* rows of table bundles, in insertion order
    isExecuting,       \* BundleExecutor.isExecuting
    tick,              \* per executeBundle activation: position and locals
    lastResult,        \* what the executeBundle call that returned last returned
    sent,              \* the chain: userOps of each handleOps transaction sent
    restarts,          \* number of process restarts so far
    faults,            \* number of store and chain calls that failed so far
    calls,             \* number of map-changing mempool calls so far
    rpc,               \* per eth_sendUserOperation request: position and locals
    http,              \* the last POST / exchange: request body and response
    loading,           \* loadFromDatabase was started and has not ended
    lastFormatted,     \* the last operation formatted: the params and the result
    estimated          \* the last gas estimation: what was asked and the answer

vars == <<inMemoryMempool, senderNonces, user_operations, bundles,
          isExecuting, tick, lastResult, sent, restarts, faults, calls, rpc, http,
          loading, lastFormatted, estimated>>

\* ------------------------------------------------------ Map / Set helpers
\* Map.has
MapHas(m, k) == \E i \in 1..Len(m) : m[i].key = k

\* Map.get (only used where MapHas holds)
MapGet(m, k) == (CHOOSE i \in 1..Len(m) : m[i].key = k)

\* Map.set: an existing key keeps its position, a new key is appended
MapSet(m, k, v) ==
    IF MapHas(m, k)
    THEN [i \in 1..Len(m) |-> IF m[i].key = k THEN [key |-> k, op |-> v] ELSE m[i]]
    ELSE Append(m, [key |-> k, op |-> v])

\* Map.delete
MapDelete(m, k) == SelectSeq(m, LAMBDA e : e.key # k)

\* MempoolManager.getAll: Array.from(values()), a copy in insertion order
getAll == [i \in 1..Len(inMemoryMempool) |-> inMemoryMempool[i].op]

\* MempoolManager.getPendingCount
getPendingCount == Len(inMemoryMempool)

\* ------------------------------------------------------------- the store
IdleTick == [pc |-> "idle", userOps |-> <<>>, userOpHashes |-> <<>>,
             txHash |-> 0, i |-> 0, receipt |-> NoReceipt]

\* SELECT * FROM user_operations WHERE user_op_hash = ?
RowExists(rows, h) == \E i \in 1..Len(rows) : rows[i].user_op_hash = h

\* INSERT INTO user_operations (...) VALUES (..., 'pending')
InsertUserOperation(rows, userOp, userOpHash) ==
    Append(rows, [user_op_hash |-> userOpHash, sender |-> userOp.sender,
                  nonce |-> userOp.nonce, maxFeePerGas |-> userOp.maxFeePerGas,
                  status |-> "pending"])

\* UPDATE user_operations SET status = ? ... WHERE user_op_hash = ?
\* (the columns tx_hash, gas_used, gas_cost, error_message and the timestamps
\* are not part of the rows of this model)
UpdateRows(rows, userOpHash, status) ==
    [i \in 1..Len(rows) |->
        IF rows[i].user_op_hash = userOpHash
        THEN [rows[i] EXCEPT !.status = status]
        ELSE rows[i]]

\* SELECT * FROM user_operations WHERE status = 'pending' ORDER BY created_at
\* ASC LIMIT ?, with the default limit
getPendingUserOperations ==
    LET rows == SelectSeq(user_operations, LAMBDA r : r.status = "pending")
    IN  IF Len(rows) <= PendingLimit THEN rows ELSE SubSeq(rows, 1, PendingLimit)

\* an eth_sendUserOperation request that has not arrived
NoOp == [hash |-> "", sender |-> "", nonce |-> "", maxFeePerGas |-> 0]
NoValidation == [isValid |-> FALSE, error |-> "none", userOpHash |-> "undefined"]
NoResponse == [code |-> 0, message |-> "none", result |-> "none"]
\* no gas estimation has been asked for yet
NotEstimated == [asked |-> "none"]
\* formatUserOperation has not been called yet
NotFormatted == [called |-> FALSE, userOp |-> <<>>, formatted |-> <<>>]
\* no POST / has been answered yet
NoExchange == [body |-> <<>>, isArray |-> FALSE, responses |-> <<>>]
IdleRequest == [pc |-> "idle", userOp |-> NoOp, current |-> -1, revert |-> "none",
                validation |-> NoValidation, response |-> NoResponse]

\* ------------------------------------------------------------------ Init
Init ==
    /\ inMemoryMempool = <<>>
    /\ senderNonces = [s \in LowerSenders |-> {}]
    /\ user_operations = <<>>
    /\ bundles = <<>>
    /\ isExecuting = FALSE
    /\ tick = [t \in Callers |-> IdleTick]
    /\ lastResult = "none"
    /\ sent = <<>>
    /\ restarts = 0
    /\ faults = 0
    /\ calls = 0
    /\ rpc = [r \in Requests |-> IdleRequest]
    /\ http = NoExchange
    /\ loading = FALSE
    /\ lastFormatted = NotFormatted
    /\ estimated = NotEstimated

\* events from outside so far
Events == calls + faults + restarts

\* the environment: a store or chain call succeeds (ok) or fails
Env(ok) == IF ok THEN faults' = faults
           ELSE Events < MaxEvents /\ faults' = faults + 1

\* a mempool call that changes the maps
Call == Events < MaxEvents /\ calls' = calls + 1

\* ------------------------------------------------------- MempoolManager
\* variant of add whose store call is INSERT OR REPLACE: the record of a hash
\* the store already holds is written again as pending
add_InsertOrReplace(userOp, storeOk) ==
    LET sender == toLowerCase(userOp.sender)
        userOpHash == userOp.hash
    IN  /\ ~MapHas(inMemoryMempool, userOpHash)
        /\ userOp.nonce \notin senderNonces[sender]
        /\ Env(storeOk)
        /\ Call
        /\ inMemoryMempool' = MapSet(inMemoryMempool, userOpHash, userOp)
        /\ senderNonces' = [senderNonces EXCEPT ![sender] = @ \cup {userOp.nonce}]
        /\ user_operations' =
              IF ~storeOk THEN user_operations
              ELSE IF RowExists(user_operations, userOpHash)
              THEN UpdateRows(user_operations, userOpHash, "pending")
              ELSE InsertUserOperation(user_operations, userOp, userOpHash)
        /\ UNCHANGED <<bundles, isExecuting, tick, lastResult, sent, restarts, http,
                       loading, lastFormatted, estimated>>

\* add(userOp, userOpHash): the duplicate and nonce checks throw before any
\* change; otherwise both maps are written and then saveUserOperation is
\* awaited, which rejects on a UNIQUE violation of user_op_hash or on an I/O
\* error (storeOk = FALSE) and leaves the maps as written.
add(userOp, storeOk) ==
    LET sender == toLowerCase(userOp.sender)
        userOpHash == userOp.hash
    IN  /\ ~MapHas(inMemoryMempool, userOpHash)
        /\ userOp.nonce \notin senderNonces[sender]
        /\ Env(storeOk)
        /\ Call
        /\ inMemoryMempool' = MapSet(inMemoryMempool, userOpHash, userOp)
        /\ senderNonces' = [senderNonces EXCEPT ![sender] = @ \cup {userOp.nonce}]
        /\ user_operations' =
              IF storeOk /\ ~RowExists(user_operations, userOpHash)
              THEN InsertUserOperation(user_operations, userOp, userOpHash)
              ELSE user_operations
        /\ UNCHANGED <<bundles, isExecuting, tick, lastResult, sent, restarts, http,
                       loading, lastFormatted, estimated>>

\* add called for an operation that was validated
admit(userOp, storeOk) == add(userOp, storeOk) /\ UNCHANGED rpc

\* add rejected by one of its two checks: nothing changes
addRejected(userOp) ==
    /\ \/ MapHas(inMemoryMempool, userOp.hash)
       \/ userOp.nonce \in senderNonces[toLowerCase(userOp.sender)]
    /\ UNCHANGED vars

\* remove(userOpHash)
remove(userOpHash, storeOk) ==
    IF MapHas(inMemoryMempool, userOpHash)
    THEN /\ Env(storeOk)
         /\ Call
         /\ LET userOp == inMemoryMempool[MapGet(inMemoryMempool, userOpHash)].op
                sender == toLowerCase(userOp.sender)
            IN  /\ inMemoryMempool' = MapDelete(inMemoryMempool, userOpHash)
                /\ senderNonces' = [senderNonces EXCEPT ![sender] = @ \ {userOp.nonce}]
         /\ user_operations' =
               IF storeOk THEN UpdateRows(user_operations, userOpHash, "removed")
               ELSE user_operations
         /\ UNCHANGED <<bundles, isExecuting, tick, lastResult, sent, restarts, rpc,
                        http, loading, lastFormatted, estimated>>
    ELSE storeOk /\ UNCHANGED vars

\* clear()
clear ==
    /\ inMemoryMempool # <<>>
    /\ Call
    /\ inMemoryMempool' = <<>>
    /\ senderNonces' = [s \in LowerSenders |-> {}]
    /\ UNCHANGED <<user_operations, bundles, isExecuting, tick, lastResult, sent,
                   restarts, faults, rpc, http, loading, lastFormatted, estimated>>

\* nonce sets rebuilt by loadFromDatabase from the rows it is given
LoadedNonces(rows) ==
    [s \in LowerSenders |->
        { rows[i].nonce : i \in { j \in 1..Len(rows) : toLowerCase(rows[j].sender) = s } }]

\* the maps loadFromDatabase builds from the pending rows
LoadedMempool(rows) ==
    [i \in 1..Len(rows) |->
        [key |-> rows[i].user_op_hash,
         op |-> [hash |-> rows[i].user_op_hash, sender |-> rows[i].sender,
                 nonce |-> rows[i].nonce, maxFeePerGas |-> rows[i].maxFeePerGas]]]

\* The process is restarted on the same database file: main() builds a new
\* MempoolManager (constructor -> loadFromDatabase) and a new BundleExecutor;
\* a tick that was in flight is gone.
Restart ==
    /\ Events < MaxEvents
    /\ restarts' = restarts + 1
    /\ inMemoryMempool' = LoadedMempool(getPendingUserOperations)
    /\ senderNonces' = LoadedNonces(getPendingUserOperations)
    /\ isExecuting' = FALSE
    /\ tick' = [t \in Callers |-> IdleTick]
    /\ lastResult' = "none"
    /\ UNCHANGED <<user_operations, bundles, sent, faults, calls, rpc, http, loading,
                   lastFormatted, estimated>>

\* ------------------------------------------------------- BundleExecutor
Min(a, b) == IF a < b THEN a ELSE b

\* variant of the sort: an element goes ahead of the elements of equal fee
InsertByFee_TiesFirst(sorted, op) ==
    LET before == SelectSeq(sorted, LAMBDA x : x.maxFeePerGas > op.maxFeePerGas)
        after  == SelectSeq(sorted, LAMBDA x : x.maxFeePerGas <= op.maxFeePerGas)
    IN  before \o <<op>> \o after

\* Array.prototype.sort with the comparator of createBundle (descending
\* maxFeePerGas, 0 on equal fees); the sort is stable, so an element goes
\* behind every element whose fee is not smaller.
InsertByFee(sorted, op) ==
    LET before == SelectSeq(sorted, LAMBDA x : x.maxFeePerGas >= op.maxFeePerGas)
        after  == SelectSeq(sorted, LAMBDA x : x.maxFeePerGas < op.maxFeePerGas)
    IN  before \o <<op>> \o after

RECURSIVE SortByFee(_)
SortByFee(ops) ==
    IF ops = <<>> THEN <<>>
    ELSE \* the sorted prefix is a value bound once, then the last element goes in
         CHOOSE r \in { InsertByFee(sorted, ops[Len(ops)]) :
                           sorted \in {SortByFee(SubSeq(ops, 1, Len(ops) - 1))} } : TRUE

\* createBundle up to its first await: snapshot, sort, slice
bundleUserOps == LET sorted == SortByFee(getAll)
                 IN  SubSeq(sorted, 1, Min(Len(sorted), MaxBundleSize))

\* ethers.keccak256(toUtf8Bytes(userOpHashes.join(''))): one value per
\* sequence of hashes
bundleHashOf(userOpHashes) == userOpHashes

\* the finally block of executeBundle, after a return or the catch block
Finally(t, result) ==
    /\ isExecuting' = FALSE
    /\ tick' = [tick EXCEPT ![t] = IdleTick]
    /\ lastResult' = result

\* variant of ReturnBusy: the busy return sits inside the try, so the finally
\* block clears the flag of the tick that is running
ReturnBusy_InsideTry(t) ==
    /\ lastResult' = "busy"
    /\ isExecuting' = FALSE
    /\ UNCHANGED <<inMemoryMempool, senderNonces, user_operations, bundles,
                   tick, sent, restarts, faults, calls, rpc, http, loading,
                   lastFormatted, estimated>>

\* executeBundle found isExecuting set: returns before the try
ReturnBusy(t) ==
    /\ lastResult' = "busy"
    /\ UNCHANGED <<inMemoryMempool, senderNonces, user_operations, bundles,
                   isExecuting, tick, sent, restarts, faults, calls, rpc, http, loading,
                   lastFormatted, estimated>>

\* executeBundle, from the call to the first await inside createBundle
executeBundle(t) ==
    /\ tick[t].pc = "idle"
    /\ \A t2 \in Callers : t2 < t => tick[t2].pc # "idle"   \* activations are interchangeable
    /\ IF isExecuting
       THEN ReturnBusy(t)
       ELSE /\ Len(sent) < MaxTx
            /\ IF getAll = <<>>
               THEN \* createBundle throws 'No UserOperations in mempool'
                    /\ Finally(t, "error")
                    /\ UNCHANGED <<inMemoryMempool, senderNonces, user_operations,
                                   bundles, sent, restarts, faults, calls, rpc, http,
                                   loading, lastFormatted, estimated>>
               ELSE /\ isExecuting' = TRUE
                    /\ tick' = [tick EXCEPT ![t] =
                                  [IdleTick EXCEPT !.pc = "getUserOpHash",
                                                   !.userOps = bundleUserOps,
                                                   !.i = 1]]
                    /\ UNCHANGED <<inMemoryMempool, senderNonces, user_operations,
                                   bundles, lastResult, sent, restarts, faults, calls,
                                   rpc, http, loading, lastFormatted, estimated>>

\* the setInterval callback of startAutoExecution
autoExecution(t) ==
    /\ getPendingCount > 0
    /\ executeBundle(t)

\* one iteration of the hashing loop of createBundle: the hash is pushed, or
\* getUserOpHash throws and the op is skipped (it stays in bundle.userOps)
getUserOpHash(t, chainOk) ==
    LET k == tick[t] IN
    /\ k.pc = "getUserOpHash"
    /\ Env(chainOk)
    /\ tick' = [tick EXCEPT ![t] =
          [k EXCEPT !.userOpHashes = IF chainOk THEN Append(@, k.userOps[k.i].hash) ELSE @,
                    !.i = IF k.i < Len(k.userOps) THEN k.i + 1 ELSE 0,
                    !.pc = IF k.i < Len(k.userOps) THEN "getUserOpHash" ELSE "handleOps"]]
    /\ UNCHANGED <<inMemoryMempool, senderNonces, user_operations, bundles,
                   isExecuting, lastResult, sent, restarts, calls, rpc, http, loading,
                   lastFormatted, estimated>>

\* variant of handleOps: when the chain call throws, the catch block evicts
\* the ops of the bundle (store status failed, entry deleted)
handleOps_EvictOnError(t, chainOk) ==
    LET k == tick[t]
        hs == { k.userOps[j].hash : j \in 1..Len(k.userOps) }
    IN
    /\ k.pc = "handleOps"
    /\ Env(chainOk)
    /\ IF chainOk
       THEN /\ sent' = Append(sent, k.userOps)
            /\ tick' = [tick EXCEPT ![t] = [k EXCEPT !.pc = "saveBundle",
                                                     !.txHash = Len(sent) + 1]]
            /\ UNCHANGED <<inMemoryMempool, senderNonces, user_operations, bundles,
                           isExecuting, lastResult, restarts, calls, rpc, http, loading,
                           lastFormatted, estimated>>
       ELSE /\ Finally(t, "error")
            /\ inMemoryMempool' = SelectSeq(inMemoryMempool, LAMBDA e : e.key \notin hs)
            /\ user_operations' =
                  [j \in 1..Len(user_operations) |->
                      IF user_operations[j].user_op_hash \in hs
                      THEN [user_operations[j] EXCEPT !.status = "failed"]
                      ELSE user_operations[j]]
            /\ UNCHANGED <<senderNonces, bundles, sent, restarts, calls, rpc, http,
                           loading, lastFormatted, estimated>>

\* blockchainService.handleOps: estimateGas, getFeeData and the send; any of
\* them may throw (chainOk = FALSE), otherwise the transaction is sent
handleOps(t, chainOk) ==
    LET k == tick[t] IN
    /\ k.pc = "handleOps"
    /\ Env(chainOk)
    /\ IF chainOk
       THEN /\ sent' = Append(sent, k.userOps)
            /\ tick' = [tick EXCEPT ![t] = [k EXCEPT !.pc = "saveBundle",
                                                     !.txHash = Len(sent) + 1]]
            /\ UNCHANGED <<inMemoryMempool, senderNonces, user_operations, bundles,
                           isExecuting, lastResult, restarts, calls, rpc, http, loading,
                           lastFormatted, estimated>>
       ELSE /\ Finally(t, "error")
            /\ UNCHANGED <<inMemoryMempool, senderNonces, user_operations, bundles,
                           sent, restarts, calls, rpc, http, loading, lastFormatted, estimated>>

\* where the tick goes once the bundle is saved / a loop over the hashes ends
AfterSave(k) == IF k.userOpHashes = <<>> THEN [k EXCEPT !.pc = "waitForTransaction"]
                ELSE [k EXCEPT !.pc = "markAsSubmitted", !.i = 1]

\* db.saveBundle: INSERT INTO bundles ... 'submitted'; rejects on a UNIQUE
\* violation of bundle_hash or an I/O error
saveBundle(t, storeOk) ==
    LET k == tick[t]
        bundleHash == bundleHashOf(k.userOpHashes)
    IN
    /\ k.pc = "saveBundle"
    /\ Env(storeOk)
    /\ IF storeOk /\ ~\E j \in 1..Len(bundles) : bundles[j].bundle_hash = bundleHash
       THEN /\ bundles' = Append(bundles, [bundle_hash |-> bundleHash,
                                           tx_hash |-> k.txHash,
                                           user_op_count |-> Len(k.userOpHashes),
                                           status |-> "submitted"])
            /\ tick' = [tick EXCEPT ![t] = AfterSave(k)]
            /\ UNCHANGED <<inMemoryMempool, senderNonces, user_operations,
                           isExecuting, lastResult, sent, restarts, calls, rpc, http,
                           loading, lastFormatted, estimated>>
       ELSE /\ Finally(t, "error")
            /\ UNCHANGED <<inMemoryMempool, senderNonces, user_operations, bundles,
                           sent, restarts, calls, rpc, http, loading, lastFormatted, estimated>>

\* one iteration of the loop calling mempool.markAsSubmitted
markAsSubmitted(t, storeOk) ==
    LET k == tick[t] IN
    /\ k.pc = "markAsSubmitted"
    /\ Env(storeOk)
    /\ IF storeOk
       THEN /\ user_operations' = UpdateRows(user_operations, k.userOpHashes[k.i],
                                             "submitted")
            /\ tick' = [tick EXCEPT ![t] =
                  IF k.i < Len(k.userOpHashes) THEN [k EXCEPT !.i = k.i + 1]
                  ELSE [k EXCEPT !.pc = "waitForTransaction", !.i = 0]]
            /\ UNCHANGED <<inMemoryMempool, senderNonces, bundles,
                           isExecuting, lastResult, sent, restarts, calls, rpc, http,
                           loading, lastFormatted, estimated>>
       ELSE /\ Finally(t, "error")
            /\ UNCHANGED <<inMemoryMempool, senderNonces, user_operations, bundles,
                           sent, restarts, calls, rpc, http, loading, lastFormatted, estimated>>

\* what provider.waitForTransaction may resolve to: a receipt with status 1
\* ("1") or status 0 ("0"), or null; any other outcome is an exception
Receipts == {"1", "0", NULL}

waitForTransaction(t, outcome) ==
    LET k == tick[t] IN
    /\ k.pc = "waitForTransaction"
    /\ Env(outcome \in Receipts)
    /\ IF outcome \in Receipts
       THEN /\ tick' = [tick EXCEPT ![t] = [k EXCEPT !.pc = "updateBundleStatus",
                                                     !.receipt = outcome]]
            /\ UNCHANGED <<inMemoryMempool, senderNonces, user_operations, bundles,
                           isExecuting, lastResult, sent, restarts, calls, rpc, http,
                           loading, lastFormatted, estimated>>
       ELSE /\ Finally(t, "error")
            /\ UNCHANGED <<inMemoryMempool, senderNonces, user_operations, bundles,
                           sent, restarts, calls, rpc, http, loading, lastFormatted, estimated>>

\* the branch taken on the receipt: receipt && receipt.status === 1
Succeeded(receipt) == receipt # NULL /\ receipt = "1"

\* UPDATE bundles SET status = ? WHERE bundle_hash = ?
UpdateBundleRows(rows, bundleHash, status) ==
    [j \in 1..Len(rows) |->
        IF rows[j].bundle_hash = bundleHash THEN [rows[j] EXCEPT !.status = status]
        ELSE rows[j]]

\* db.updateBundleStatus in either branch
updateBundleStatus(t, storeOk) ==
    LET k == tick[t]
        ok == Succeeded(k.receipt)
    IN
    /\ k.pc = "updateBundleStatus"
    /\ Env(storeOk)
    /\ IF storeOk
       THEN /\ bundles' = UpdateBundleRows(bundles, bundleHashOf(k.userOpHashes),
                                           IF ok THEN "confirmed" ELSE "failed")
            /\ IF k.userOpHashes = <<>>
               THEN Finally(t, IF ok THEN "success" ELSE "reverted")
               ELSE /\ tick' = [tick EXCEPT ![t] =
                          [k EXCEPT !.pc = IF ok THEN "markAsConfirmed" ELSE "markAsFailed",
                                    !.i = 1]]
                    /\ UNCHANGED <<isExecuting, lastResult, rpc, http, loading,
                                   lastFormatted, estimated>>
            /\ UNCHANGED <<inMemoryMempool, senderNonces, user_operations,
                           sent, restarts, calls, rpc, http, loading, lastFormatted, estimated>>
       ELSE /\ Finally(t, "error")
            /\ UNCHANGED <<inMemoryMempool, senderNonces, user_operations, bundles,
                           sent, restarts, calls, rpc, http, loading, lastFormatted, estimated>>

\* MempoolManager.markAsConfirmed after its store call: the entry is deleted
\* first and looked up afterwards
ConfirmedNonces(m, nonces, userOpHash) ==
    LET m1 == MapDelete(m, userOpHash) IN
    IF MapHas(m1, userOpHash)
    THEN LET userOp == m1[MapGet(m1, userOpHash)].op
         IN  [nonces EXCEPT ![toLowerCase(userOp.sender)] = @ \ {userOp.nonce}]
    ELSE nonces

\* one iteration of the loop calling mempool.markAsConfirmed
markAsConfirmed(t, storeOk) ==
    LET k == tick[t]
        userOpHash == k.userOpHashes[k.i]
    IN
    /\ k.pc = "markAsConfirmed"
    /\ Env(storeOk)
    /\ IF storeOk
       THEN /\ user_operations' = UpdateRows(user_operations, userOpHash, "confirmed")
            /\ inMemoryMempool' = MapDelete(inMemoryMempool, userOpHash)
            /\ senderNonces' = ConfirmedNonces(inMemoryMempool, senderNonces, userOpHash)
            /\ IF k.i < Len(k.userOpHashes)
               THEN /\ tick' = [tick EXCEPT ![t] = [k EXCEPT !.i = k.i + 1]]
                    /\ UNCHANGED <<isExecuting, lastResult, rpc, http, loading,
                                   lastFormatted, estimated>>
               ELSE Finally(t, "success")
            /\ UNCHANGED <<bundles, sent, restarts, calls, rpc, http, loading,
                           lastFormatted, estimated>>
       ELSE /\ Finally(t, "error")
            /\ UNCHANGED <<inMemoryMempool, senderNonces, user_operations, bundles,
                           sent, restarts, calls, rpc, http, loading, lastFormatted, estimated>>

\* variant of markAsFailed that leaves the operation in the in-memory mempool
markAsFailed_KeepsOp(t, storeOk) ==
    LET k == tick[t]
        userOpHash == k.userOpHashes[k.i]
    IN
    /\ k.pc = "markAsFailed"
    /\ Env(storeOk)
    /\ IF storeOk
       THEN /\ user_operations' = UpdateRows(user_operations, userOpHash, "failed")
            /\ IF k.i < Len(k.userOpHashes)
               THEN /\ tick' = [tick EXCEPT ![t] = [k EXCEPT !.i = k.i + 1]]
                    /\ UNCHANGED <<isExecuting, lastResult, rpc, http, loading,
                                   lastFormatted, estimated>>
               ELSE Finally(t, "reverted")
            /\ UNCHANGED <<inMemoryMempool, senderNonces, bundles, sent, restarts,
                           calls, rpc, http, loading, lastFormatted, estimated>>
       ELSE /\ Finally(t, "error")
            /\ UNCHANGED <<inMemoryMempool, senderNonces, user_operations, bundles,
                           sent, restarts, calls, rpc, http, loading, lastFormatted, estimated>>

\* one iteration of the loop calling mempool.markAsFailed
markAsFailed(t, storeOk) ==
    LET k == tick[t]
        userOpHash == k.userOpHashes[k.i]
    IN
    /\ k.pc = "markAsFailed"
    /\ Env(storeOk)
    /\ IF storeOk
       THEN /\ user_operations' = UpdateRows(user_operations, userOpHash, "failed")
            /\ inMemoryMempool' = MapDelete(inMemoryMempool, userOpHash)
            /\ IF k.i < Len(k.userOpHashes)
               THEN /\ tick' = [tick EXCEPT ![t] = [k EXCEPT !.i = k.i + 1]]
                    /\ UNCHANGED <<isExecuting, lastResult, rpc, http, loading,
                                   lastFormatted, estimated>>
               ELSE Finally(t, "reverted")
            /\ UNCHANGED <<senderNonces, bundles, sent, restarts, calls, rpc, http,
                           loading, lastFormatted, estimated>>
       ELSE /\ Finally(t, "error")
            /\ UNCHANGED <<inMemoryMempool, senderNonces, user_operations, bundles,
                           sent, restarts, calls, rpc, http, loading, lastFormatted, estimated>>

\* ------------------------------------------- BlockchainService (validation)
\* what the simulateValidation static call of the EntryPoint can do: return
\* without reverting, revert with the ValidationResult error (the success
\* selector of ERC-4337), revert with another error of the ABI, revert with
\* data of a selector the ABI does not know, or fail without revert data
\* (network error, timeout)
StaticCallOutcomes == {"returned", "ValidationResult", "FailedOp", "unknown", "nodata"}

\* simulateValidation: success is reported when the static call returns; every
\* exception is caught and reported as a failure, named after the decoded
\* error when the revert data decodes
simulateValidation(outcome) ==
    IF outcome = "returned"
    THEN [success |-> TRUE, error |-> "none"]
    ELSE IF outcome \in {"ValidationResult", "FailedOp"}
    THEN [success |-> FALSE, error |-> outcome]
    ELSE IF outcome = "unknown"
    THEN [success |-> FALSE, error |-> "Validation failed"]
    ELSE [success |-> FALSE, error |-> "error.message"]

\* getNonce (the one that catches): the nonce the EntryPoint reports, '0x0'
\* when the call fails
getNonce(current, chainOk) == IF chainOk THEN current ELSE 0

\* BigInt of the nonce strings of the universe
BigInt(s) == IF s \in {"0x01", "0x1"} THEN 1 ELSE 0

\* ------------------------------------------------ SendUserOperationMethod
entryPointAddress == "0xEP"
EntryPoints == {"0xEP", "0xep", "0xE0"}

\* operations as clients send them: those of UserOps, an operation of the
\* same account whose nonce 0 is written with four digits, and two written
\* with a single digit
RpcOps ==
    UserOps \cup
    { [hash |-> "h4", sender |-> "0xA", nonce |-> "0x0000", maxFeePerGas |-> 1],
      [hash |-> "h3", sender |-> "0xa", nonce |-> "0x1", maxFeePerGas |-> 2],
      [hash |-> "h1", sender |-> "0xA", nonce |-> "0x0", maxFeePerGas |-> 2] }

\* ensureHex on the nonce strings of the universe: the prefix is stripped, ''
\* and '0' give '0x', an odd number of digits is padded with one '0'
ensureHex(value) ==
    IF value = "0x0" THEN "0x"
    ELSE IF value = "0x1" THEN "0x01"
    ELSE value

\* formatUserOperation: the sender is lowercased, numbers go through ensureHex
formatUserOperation(userOp) ==
    [userOp EXCEPT !.sender = toLowerCase(@), !.nonce = ensureHex(@)]

\* validateFormat: isNaN(parseInt(value)) holds for the nonce '0x'
validateFormat(userOp) ==
    IF userOp.nonce = "0x"
    THEN [isValid |-> FALSE, error |-> "Invalid numeric value for nonce",
          userOpHash |-> "undefined"]
    ELSE [isValid |-> TRUE, error |-> "none", userOpHash |-> "undefined"]

\* the response handleSingleRPCRequest builds from what execute threw:
\* error.code || -32603
ErrorResponse(code, message) == [code |-> code, message |-> message, result |-> "error"]

\* execute ends throwing 'UserOperation validation failed'
ValidationFailed(r, validation) ==
    rpc' = [rpc EXCEPT ![r].pc = "done", ![r].validation = validation,
                       ![r].response = ErrorResponse(-32500, "UserOperation validation failed")]

mainVars == <<inMemoryMempool, senderNonces, user_operations, bundles,
              isExecuting, tick, lastResult, sent, restarts, faults, calls, http,
              loading, lastFormatted, estimated>>

\* execute comparing the entryPoint parameter as it was sent
execute_CaseSensitive(r, userOp, entryPoint, formatted) ==
    /\ rpc[r].pc = "idle"
    /\ \A r2 \in Requests : r2 < r => rpc[r2].pc # "idle"
    /\ IF entryPoint # entryPointAddress
       THEN rpc' = [rpc EXCEPT ![r].pc = "done",
                       ![r].response = ErrorResponse(-32500, "Unsupported EntryPoint")]
       ELSE LET userOpFormatted == IF formatted THEN formatUserOperation(userOp)
                                   ELSE userOp
                formatValidation == validateFormat(userOpFormatted)
            IN  IF ~formatValidation.isValid
                THEN ValidationFailed(r, formatValidation)
                ELSE rpc' = [rpc EXCEPT ![r].pc = "getUserOpHash",
                                        ![r].userOp = userOpFormatted]
    /\ UNCHANGED mainVars

\* execute(params) up to its first await: the entry point check, the
\* formatting (formatted: the variant of execute that formats the operation
\* before it validates and adds it) and validateFormat
execute(r, userOp, entryPoint, formatted) ==
    /\ rpc[r].pc = "idle"
    /\ \A r2 \in Requests : r2 < r => rpc[r2].pc # "idle"
    /\ IF toLowerCase(entryPoint) # toLowerCase(entryPointAddress)
       THEN rpc' = [rpc EXCEPT ![r].pc = "done",
                       ![r].response = ErrorResponse(-32500, "Unsupported EntryPoint")]
       ELSE LET userOpFormatted == IF formatted THEN formatUserOperation(userOp)
                                   ELSE userOp
                formatValidation == validateFormat(userOpFormatted)
            IN  IF ~formatValidation.isValid
                THEN ValidationFailed(r, formatValidation)
                ELSE rpc' = [rpc EXCEPT ![r].pc = "getUserOpHash",
                                        ![r].userOp = userOpFormatted]
    /\ UNCHANGED mainVars

\* validate, step 2: the hash of the operation
validate_getUserOpHash(r, chainOk) ==
    /\ rpc[r].pc = "getUserOpHash"
    /\ IF chainOk
       THEN rpc' = [rpc EXCEPT ![r].pc = "getNonce",
                               ![r].validation.userOpHash = rpc[r].userOp.hash]
       ELSE ValidationFailed(r, [isValid |-> FALSE,
                                 error |-> "Failed to compute UserOperation hash",
                                 userOpHash |-> "undefined"])
    /\ UNCHANGED mainVars

\* validate, step 3: the nonce check against the chain, whose nonce for the
\* sender is current at that time (kept in the request for reference)
validate_getNonce(r, current, chainOk) ==
    /\ rpc[r].pc = "getNonce"
    /\ LET currentNonce == getNonce(current, chainOk)
           opNonce == BigInt(rpc[r].userOp.nonce)
       IN  IF opNonce < currentNonce
           THEN rpc' = [rpc EXCEPT
                           ![r].pc = "done",
                           ![r].current = current,
                           ![r].validation = [isValid |-> FALSE, error |-> "Nonce too low",
                                              userOpHash |-> rpc[r].validation.userOpHash],
                           ![r].response =
                               ErrorResponse(-32500, "UserOperation validation failed")]
           ELSE rpc' = [rpc EXCEPT ![r].pc = "simulateValidation", ![r].current = current]
    /\ UNCHANGED mainVars

\* validate, step 3 with the getNonce that does not catch: the chain call
\* throws and validate returns 'Failed to check nonce' with the hash
validate_getNonceThrows(r) ==
    /\ rpc[r].pc = "getNonce"
    /\ ValidationFailed(r, [isValid |-> FALSE, error |-> "Failed to check nonce",
                              userOpHash |-> rpc[r].validation.userOpHash])
    /\ UNCHANGED mainVars

\* the simulation step returning its failure without the hash
validate_simulateValidation_DropsHash(r, outcome) ==
    /\ rpc[r].pc = "simulateValidation"
    /\ LET simulation == simulateValidation(outcome)
           reverted == [rpc EXCEPT ![r].revert = outcome]
       IN  IF ~simulation.success
           THEN rpc' = [reverted EXCEPT
                           ![r].pc = "done",
                           ![r].validation = [isValid |-> FALSE,
                                              error |-> simulation.error,
                                              userOpHash |-> "undefined"],
                           ![r].response =
                               ErrorResponse(-32500, "UserOperation validation failed")]
           ELSE rpc' = [reverted EXCEPT ![r].pc = "add", ![r].validation.isValid = TRUE]
    /\ UNCHANGED mainVars

\* validate, step 4: the simulation
validate_simulateValidation(r, outcome) ==
    /\ rpc[r].pc = "simulateValidation"
    /\ LET simulation == simulateValidation(outcome)
           reverted == [rpc EXCEPT ![r].revert = outcome]
       IN  IF ~simulation.success
           THEN rpc' = [reverted EXCEPT
                           ![r].pc = "done",
                           ![r].validation = [isValid |-> FALSE,
                                              error |-> simulation.error,
                                              userOpHash |-> rpc[r].validation.userOpHash],
                           ![r].response = ErrorResponse(-32500, "UserOperation validation failed")]
           ELSE rpc' = [reverted EXCEPT ![r].pc = "add", ![r].validation.isValid = TRUE]
    /\ UNCHANGED mainVars

\* variant of the add call in which add checks the nonce before the hash
execute_add_NonceCheckFirst(r, storeOk) ==
    /\ rpc[r].pc = "add"
    /\ LET userOp == rpc[r].userOp
       IN  \/ /\ add(userOp, storeOk)
              /\ rpc' = [rpc EXCEPT
                           ![r].pc = "done",
                           ![r].response =
                               IF storeOk /\ ~RowExists(user_operations, userOp.hash)
                               THEN [code |-> 0, message |-> "none", result |-> userOp.hash]
                               ELSE ErrorResponse(-32603, "store error")]
           \/ /\ userOp.nonce \in senderNonces[toLowerCase(userOp.sender)]
              /\ storeOk
              /\ rpc' = [rpc EXCEPT
                           ![r].pc = "done",
                           ![r].response = ErrorResponse(-32603, "Nonce already used")]
              /\ UNCHANGED mainVars
           \/ /\ userOp.nonce \notin senderNonces[toLowerCase(userOp.sender)]
              /\ MapHas(inMemoryMempool, userOp.hash)
              /\ storeOk
              /\ rpc' = [rpc EXCEPT
                           ![r].pc = "done",
                           ![r].response =
                               ErrorResponse(-32603, "UserOperation already in mempool")]
              /\ UNCHANGED mainVars

\* variant of the add call in which an operation whose nonce is taken goes
\* into the by-hash map all the same
execute_add_NonceIgnored(r, storeOk) ==
    /\ rpc[r].pc = "add"
    /\ LET userOp == rpc[r].userOp
       IN  \/ /\ add(userOp, storeOk)
              /\ rpc' = [rpc EXCEPT
                           ![r].pc = "done",
                           ![r].response =
                               IF storeOk /\ ~RowExists(user_operations, userOp.hash)
                               THEN [code |-> 0, message |-> "none", result |-> userOp.hash]
                               ELSE ErrorResponse(-32603, "store error")]
           \/ /\ MapHas(inMemoryMempool, userOp.hash)
              /\ storeOk
              /\ rpc' = [rpc EXCEPT
                           ![r].pc = "done",
                           ![r].response =
                               ErrorResponse(-32603, "UserOperation already in mempool")]
              /\ UNCHANGED mainVars
           \/ /\ ~MapHas(inMemoryMempool, userOp.hash)
              /\ userOp.nonce \in senderNonces[toLowerCase(userOp.sender)]
              /\ storeOk
              /\ rpc' = [rpc EXCEPT
                           ![r].pc = "done",
                           ![r].response = ErrorResponse(-32603, "Nonce already used")]
              /\ inMemoryMempool' = MapSet(inMemoryMempool, userOp.hash, userOp)
              /\ UNCHANGED <<senderNonces, user_operations, bundles, isExecuting, tick,
                             lastResult, sent, restarts, faults, calls, http, loading,
                             lastFormatted, estimated>>

\* await this.mempool.add(userOp, validation.userOpHash): the hash is returned
\* when add resolves; an Error thrown by add carries no code
execute_add(r, storeOk) ==
    /\ rpc[r].pc = "add"
    /\ LET userOp == rpc[r].userOp
       IN  \/ /\ add(userOp, storeOk)
              /\ rpc' = [rpc EXCEPT
                           ![r].pc = "done",
                           ![r].response =
                               IF storeOk /\ ~RowExists(user_operations, userOp.hash)
                               THEN [code |-> 0, message |-> "none", result |-> userOp.hash]
                               ELSE ErrorResponse(-32603, "store error")]
           \/ /\ MapHas(inMemoryMempool, userOp.hash)
              /\ storeOk
              /\ rpc' = [rpc EXCEPT
                           ![r].pc = "done",
                           ![r].response =
                               ErrorResponse(-32603, "UserOperation already in mempool")]
              /\ UNCHANGED mainVars
           \/ /\ ~MapHas(inMemoryMempool, userOp.hash)
              /\ userOp.nonce \in senderNonces[toLowerCase(userOp.sender)]
              /\ storeOk
              /\ rpc' = [rpc EXCEPT
                           ![r].pc = "done",
                           ![r].response = ErrorResponse(-32603, "Nonce already used")]
              /\ UNCHANGED mainVars

\* the eth_sendUserOperation requests of a running process
NextRpc ==
    \/ \E r \in Requests, u \in RpcOps, ep \in EntryPoints, f \in BOOLEAN :
          execute(r, u, ep, f)
    \/ \E r \in Requests, ok \in BOOLEAN : validate_getUserOpHash(r, ok)
    \/ \E r \in Requests, n \in 0..MaxNonce, ok \in BOOLEAN : validate_getNonce(r, n, ok)
    \/ \E r \in Requests : validate_getNonceThrows(r)
    \/ \E r \in Requests, o \in StaticCallOutcomes : validate_simulateValidation(r, o)
    \/ \E r \in Requests, ok \in BOOLEAN : execute_add(r, ok)

SpecRpc == Init /\ [][NextRpc]_vars

\* requests whose chain calls all succeed and which pass validation once
\* their EntryPoint is accepted (the chain's nonce is 0, the simulation is
\* reported as a success): what is left open is the order in which they reach
\* add and whether the store accepts
NextAdmit ==
    \/ \E r \in Requests, u \in RpcOps, e \in EntryPoints, f \in BOOLEAN :
          execute(r, u, e, f)
    \/ \E r \in Requests : validate_getUserOpHash(r, TRUE)
    \/ \E r \in Requests : validate_getNonce(r, 0, TRUE)
    \/ \E r \in Requests : validate_simulateValidation(r, "returned")
    \/ \E r \in Requests, ok \in BOOLEAN : execute_add(r, ok)

SpecAdmit == Init /\ [][NextAdmit]_vars

\* validate called for one operation: validate reads nothing but its
\* argument and the answers of the chain, so one call is explored
NextValidate ==
    \/ \E u \in RpcOps, f \in BOOLEAN : execute(1, u, entryPointAddress, f)
    \/ \E ok \in BOOLEAN : validate_getUserOpHash(1, ok)
    \/ \E current \in 0..MaxNonce, ok \in BOOLEAN : validate_getNonce(1, current, ok)
    \/ validate_getNonceThrows(1)
    \/ \E outcome \in StaticCallOutcomes : validate_simulateValidation(1, outcome)

SpecValidate == Init /\ [][NextValidate]_vars

\* the handlers of a running process
NextLive ==
    \/ \E u \in UserOps, ok \in BOOLEAN : admit(u, ok)
    \/ \E u \in UserOps : addRejected(u)
    \/ \E h \in Hashes, ok \in BOOLEAN : remove(h, ok)
    \/ \E t \in Callers : executeBundle(t)
    \/ \E t \in Callers : autoExecution(t)
    \/ \E t \in Callers, ok \in BOOLEAN : getUserOpHash(t, ok)
    \/ \E t \in Callers, ok \in BOOLEAN : handleOps(t, ok)
    \/ \E t \in Callers, ok \in BOOLEAN : saveBundle(t, ok)
    \/ \E t \in Callers, ok \in BOOLEAN : markAsSubmitted(t, ok)
    \/ \E t \in Callers, o \in Receipts \cup {"throw"} : waitForTransaction(t, o)
    \/ \E t \in Callers, ok \in BOOLEAN : updateBundleStatus(t, ok)
    \/ \E t \in Callers, ok \in BOOLEAN : markAsConfirmed(t, ok)
    \/ \E t \in Callers, ok \in BOOLEAN : markAsFailed(t, ok)

\* ... with clear() and restarts of the process on the same database
Next ==
    \/ NextLive
    \/ clear
    \/ Restart

\* one process lifetime, clear() never called (the repository has no caller)
SpecLive == Init /\ [][NextLive]_vars

Spec == Init /\ [][Next]_vars

\* --------------------------------------------- a tick on a filled mempool
\* the i-th operation admitted, offering fee
PendingOp(i, fee) ==
    [hash |-> "p" \o ToString(i), sender |-> "0xa",
     nonce |-> "0x" \o ToString(100 + i), maxFeePerGas |-> fee]

Fees == {1, 2}

\* the process after n admissions (n up to MaxPending) of operations of one
\* account with consecutive nonces, each offering one of two fees, every one
\* stored
InitPending ==
    \E n \in 0..MaxPending : \E fee \in [1..n -> Fees] :
        /\ inMemoryMempool =
              [i \in 1..n |-> [key |-> PendingOp(i, fee[i]).hash,
                               op |-> PendingOp(i, fee[i])]]
        /\ senderNonces =
              [s \in LowerSenders |-> { PendingOp(i, fee[i]).nonce : i \in 1..n }]
        /\ user_operations =
              [i \in 1..n |->
                  [user_op_hash |-> PendingOp(i, fee[i]).hash,
                   sender |-> PendingOp(i, fee[i]).sender,
                   nonce |-> PendingOp(i, fee[i]).nonce,
                   maxFeePerGas |-> fee[i], status |-> "pending"]]
        /\ bundles = <<>>
        /\ isExecuting = FALSE
        /\ tick = [t \in Callers |-> IdleTick]
        /\ lastResult = "none"
        /\ sent = <<>>
        /\ restarts = 0
        /\ faults = 0
        /\ calls = n
        /\ rpc = [r \in Requests |-> IdleRequest]
        /\ http = NoExchange
        /\ loading = FALSE
        /\ lastFormatted = NotFormatted
        /\ estimated = NotEstimated

\* executeBundle up to the on-chain submission, every chain call succeeding
NextPending ==
    \/ \E t \in Callers : executeBundle(t)
    \/ \E t \in Callers : getUserOpHash(t, TRUE)
    \/ \E t \in Callers : handleOps(t, TRUE)

SpecPending == InitPending /\ [][NextPending]_vars

\* ------------------------------------------------------------------
\* The status transitions on the whole store record: the rows carry the
\* columns the UPDATE writes (gas_cost is written exactly as gas_used is and
\* is left out). Every store call succeeds here.
Times == 1..MaxTime
NoTime == 0                  \* a timestamp column that is NULL
txHash == "0xT"              \* the transaction hash markAsSubmitted is given
gasUsed == "0x5208"          \* the gas markAsConfirmed is given
errorMessage == "reverted"   \* the message markAsFailed is given

\* the row saveUserOperation inserts
saveUserOperation(userOp) ==
    [user_op_hash |-> userOp.hash, sender |-> userOp.sender, nonce |-> userOp.nonce,
     maxFeePerGas |-> userOp.maxFeePerGas, status |-> "pending",
     tx_hash |-> NULL, gas_used |-> NULL, error_message |-> NULL,
     submitted_at |-> NoTime, confirmed_at |-> NoTime]

\* UPDATE user_operations SET status = ? [, tx_hash = ?] [, gas_used = ?]
\* [, error_message = ?] [, submitted_at | confirmed_at = CURRENT_TIMESTAMP]
\* WHERE user_op_hash = ?   (an argument that is undefined is NULL here)
updateUserOperationStatus(rows, userOpHash, status, tx, gas, msg, now) ==
    [i \in 1..Len(rows) |->
        IF rows[i].user_op_hash = userOpHash
        THEN [rows[i] EXCEPT
                 !.status = status,
                 !.tx_hash = IF tx # NULL THEN tx ELSE @,
                 !.gas_used = IF gas # NULL THEN gas ELSE @,
                 !.error_message = IF msg # NULL THEN msg ELSE @,
                 !.submitted_at = IF status = "submitted" THEN now ELSE @,
                 !.confirmed_at = IF status = "confirmed" THEN now ELSE @]
        ELSE rows[i]]

Methods == {"markAsSubmitted", "markAsConfirmed", "markAsFailed", "remove"}

\* what a call of a MempoolManager method at time now leaves in the two
\* maps and the store
MempoolManager(m, nonces, rows, method, userOpHash, now) ==
    CASE method = "markAsSubmitted" ->
           [m |-> m, nonces |-> nonces,
            rows |-> updateUserOperationStatus(rows, userOpHash, "submitted",
                                               txHash, NULL, NULL, now)]
      [] method = "markAsConfirmed" ->
           [m |-> MapDelete(m, userOpHash),
            nonces |-> ConfirmedNonces(m, nonces, userOpHash),
            rows |-> updateUserOperationStatus(rows, userOpHash, "confirmed",
                                               NULL, gasUsed, NULL, now)]
      [] method = "markAsFailed" ->
           [m |-> MapDelete(m, userOpHash), nonces |-> nonces,
            rows |-> updateUserOperationStatus(rows, userOpHash, "failed",
                                               NULL, NULL, errorMessage, now)]
      [] method = "remove" ->
           IF MapHas(m, userOpHash)
           THEN LET userOp == m[MapGet(m, userOpHash)].op IN
                [m |-> MapDelete(m, userOpHash),
                 nonces |-> [nonces EXCEPT
                               ![toLowerCase(userOp.sender)] = @ \ {userOp.nonce}],
                 rows |-> updateUserOperationStatus(rows, userOpHash, "removed",
                                                    NULL, NULL, NULL, now)]
           ELSE [m |-> m, nonces |-> nonces, rows |-> rows]

\* the latest timestamp the store holds: CURRENT_TIMESTAMP never runs back
Latest(rows) ==
    LET stamps == {NoTime} \cup { rows[i].submitted_at : i \in 1..Len(rows) }
                           \cup { rows[i].confirmed_at : i \in 1..Len(rows) }
    IN  CHOOSE x \in stamps : \A y \in stamps : y <= x

\* a method is called for a record at a second of the clock
StatusCall(method, userOpHash, now) ==
    /\ now >= Latest(user_operations)
    /\ LET after == MempoolManager(inMemoryMempool, senderNonces, user_operations,
                                   method, userOpHash, now)
       IN  /\ inMemoryMempool' = after.m
           /\ senderNonces' = after.nonces
           /\ user_operations' = after.rows
    /\ UNCHANGED <<bundles, isExecuting, tick, lastResult, sent, restarts, faults,
                   calls, rpc, http, loading, lastFormatted, estimated>>

\* two operations with different (sender, nonce) pairs have been admitted
InitStatus ==
    /\ \E a, b \in UserOps :
          /\ a.hash # b.hash
          /\ <<toLowerCase(a.sender), a.nonce>> # <<toLowerCase(b.sender), b.nonce>>
          /\ user_operations = <<saveUserOperation(a), saveUserOperation(b)>>
    /\ inMemoryMempool = LoadedMempool(user_operations)
    /\ senderNonces = LoadedNonces(user_operations)
    /\ bundles = <<>>
    /\ isExecuting = FALSE
    /\ tick = [t \in Callers |-> IdleTick]
    /\ lastResult = "none"
    /\ sent = <<>>
    /\ restarts = 0
    /\ faults = 0
    /\ calls = 0
    /\ rpc = [r \in Requests |-> IdleRequest]
    /\ http = NoExchange
    /\ loading = FALSE
    /\ lastFormatted = NotFormatted
    /\ estimated = NotEstimated

NextStatus ==
    \E method \in Methods, h \in Hashes, now \in Times : StatusCall(method, h, now)

SpecStatus == InitStatus /\ [][NextStatus]_vars

\* ------------------------------------------------------------------
\* POST /: single and batch dispatch. Values of JSON are written as strings:
\* "0", "1", "2" are numbers, "'a'" is a string, "null" is null and
\* "undefined" is a member that is absent.
undefined == "undefined"
Ids == {"0", "1", "2", "'a'", NULL, undefined}
Methods_RPC == {undefined, "eth_chainId", "eth_sendUserOperation", "bogus"}
Versions == {"2.0", "1.0"}

\* what an element of a batch may be: an object, or a value that is no object
NotAnObject == [object |-> FALSE, method |-> undefined, jsonrpc |-> undefined,
                id |-> undefined]
BatchItems ==
    {NotAnObject} \cup
    [object : {TRUE}, method : Methods_RPC, jsonrpc : Versions, id : Ids]

\* id !== null && id !== undefined ? id : 1
ResponseId(id) == IF id # NULL /\ id # undefined THEN id ELSE "1"

\* handleSingleRPCRequest(request); eth_sendUserOperation is called without
\* params here, which execute rejects with -32602 before it does anything
handleSingleRPCRequest(request) ==
    IF request.method = undefined
    THEN [code |-> -32600, result |-> undefined, id |-> ResponseId(request.id)]
    ELSE IF request.jsonrpc # "2.0"
    THEN [code |-> -32600, result |-> undefined, id |-> ResponseId(request.id)]
    ELSE CASE request.method = "eth_chainId" ->
                [code |-> 0, result |-> "0x3919", id |-> ResponseId(request.id)]
           [] request.method = "eth_sendUserOperation" ->
                [code |-> -32602, result |-> undefined, id |-> ResponseId(request.id)]
           [] OTHER ->
                [code |-> -32601, result |-> undefined, id |-> ResponseId(request.id)]

\* the callback mapped over the elements of a batch
BatchItem(rpcRequest) ==
    IF ~rpcRequest.object
    THEN [code |-> -32600, result |-> undefined, id |-> NULL]
    ELSE handleSingleRPCRequest(rpcRequest)

\* the bodies explored: arrays of up to MaxBatch elements
Bodies == UNION { [1..n -> BatchItems] : n \in 0..MaxBatch }

\* app.post('/') for a body that is an array
post(requestBody) ==
    /\ http' = IF Len(requestBody) = 0
               THEN [body |-> requestBody, isArray |-> FALSE,
                     responses |-> <<[code |-> -32600, result |-> undefined,
                                      id |-> NULL]>>]
               ELSE [body |-> requestBody, isArray |-> TRUE,
                     responses |-> [i \in 1..Len(requestBody) |->
                                      BatchItem(requestBody[i])]]
    /\ UNCHANGED <<inMemoryMempool, senderNonces, user_operations, bundles,
                   isExecuting, tick, lastResult, sent, restarts, faults, calls, rpc,
                   loading, lastFormatted, estimated>>

\* one exchange is explored: a POST of this kind reads nothing an earlier
\* one has left
NextBatch == http = NoExchange /\ \E requestBody \in Bodies : post(requestBody)

SpecBatch == Init /\ [][NextBatch]_vars

\* ------------------------------------------------------------------
\* Startup: main() constructs the MempoolManager, whose constructor starts
\* loadFromDatabase without awaiting it, then the RPC server and the
\* auto-execution are started. The load ends when the store answers.

\* the process just constructed on a store of n rows, all pending but
\* possibly the first
InitReload ==
    /\ \E n \in 0..MaxStored, first \in {"pending", "confirmed"} :
          user_operations =
              [i \in 1..n |->
                  [user_op_hash |-> PendingOp(i, 1).hash,
                   sender |-> PendingOp(i, 1).sender,
                   nonce |-> PendingOp(i, 1).nonce,
                   maxFeePerGas |-> 1,
                   status |-> IF i = 1 THEN first ELSE "pending"]]
    /\ inMemoryMempool = <<>>
    /\ senderNonces = [s \in LowerSenders |-> {}]
    /\ bundles = <<>>
    /\ isExecuting = FALSE
    /\ tick = [t \in Callers |-> IdleTick]
    /\ lastResult = "none"
    /\ sent = <<>>
    /\ restarts = 0
    /\ faults = 0
    /\ calls = 0
    /\ rpc = [r \in Requests |-> IdleRequest]
    /\ http = NoExchange
    /\ loading = TRUE
    /\ lastFormatted = NotFormatted
    /\ estimated = NotEstimated

\* inMemoryMempool.set(op.user_op_hash, userOp) for each row, in order: a key
\* the map holds keeps its place and gets the value of the row, the other
\* rows are appended (the rows have different hashes)
SetAll(m, rows) ==
    LET loaded == LoadedMempool(rows)
        replaced == [i \in 1..Len(m) |->
                        IF MapHas(loaded, m[i].key)
                        THEN loaded[MapGet(loaded, m[i].key)]
                        ELSE m[i]]
    IN  replaced \o SelectSeq(loaded, LAMBDA e : ~MapHas(m, e.key))

\* loadFromDatabase from the point where getPendingUserOperations answers: the
\* rows are set into the maps as they are then; a failure is logged
loadFromDatabase(storeOk) ==
    /\ loading
    /\ loading' = FALSE
    /\ IF storeOk
       THEN /\ inMemoryMempool' = SetAll(inMemoryMempool, getPendingUserOperations)
            /\ senderNonces' =
                  [s \in LowerSenders |->
                      senderNonces[s] \cup LoadedNonces(getPendingUserOperations)[s]]
            /\ faults' = faults
       ELSE /\ faults' = faults + 1
            /\ UNCHANGED <<inMemoryMempool, senderNonces>>
    /\ UNCHANGED <<user_operations, bundles, isExecuting, tick, lastResult, sent,
                   restarts, calls, rpc, http, lastFormatted, estimated>>

\* the requests and the ticks of the started process do not wait for the load
\* (the ticks that start after the load are those of Spec)
NextReload ==
    \/ \E ok \in BOOLEAN : loadFromDatabase(ok)
    \/ \E u \in UserOps, ok \in BOOLEAN : admit(u, ok)
    \/ \E t \in Callers : loading /\ executeBundle(t)

SpecReload == InitReload /\ [][NextReload]_vars

\* ------------------------------------------------------------------
\* formatUserOperation and ensureHex on the values JSON may carry. A string is
\* the sequence of its UTF-16 code units; "U+0130" is the capital I with dot
\* above, which toLowerCase turns into the two units i and U+0307.
Units == {"0", "1", "a", "A", "x", "U+0130"}

LowerUnit(u) ==
    IF u = "A" THEN <<"a">>
    ELSE IF u = "U+0130" THEN <<"i", "U+0307">>
    ELSE <<u>>

RECURSIVE ToLowerCase(_)
\* String.prototype.toLowerCase
ToLowerCase(str) ==
    IF str = <<>> THEN <<>> ELSE LowerUnit(Head(str)) \o ToLowerCase(Tail(str))

Strings == UNION { [1..n -> Units] : n \in 0..MaxLen }

\* a value of a field: a string, a number (with String(value)) or an absent
\* member
Str(s) == [kind |-> "string", s |-> s]
Absent == [kind |-> "undefined", s |-> <<"u", "n", "d", "e", "f", "i", "n", "e", "d">>]
Values == { Str(s) : s \in Strings } \cup
          { [kind |-> "number", s |-> <<"0">>], [kind |-> "number", s |-> <<"1">>],
            Absent }

\* !value
Falsy(value) ==
    \/ value.kind = "undefined"
    \/ value.kind = "string" /\ value.s = <<>>
    \/ value.kind = "number" /\ value.s = <<"0">>

\* value || fallback
Or(value, fallback) == IF Falsy(value) THEN Str(fallback) ELSE value

\* strValue.padStart(AddressLength, '0').slice(0, AddressLength)
PadSlice(str) ==
    IF Len(str) >= AddressLength THEN SubSeq(str, 1, AddressLength)
    ELSE [i \in 1..(AddressLength - Len(str)) |-> "0"] \o str

\* ensureHex(value, isAddress) as a string
EnsureHex(value, isAddress) ==
    IF Falsy(value) /\ value.kind # "number"
    THEN <<"0", "x">>
    ELSE LET str == value.s
             strValue == IF Len(str) >= 2 /\ str[1] = "0" /\ str[2] = "x"
                         THEN SubSeq(str, 3, Len(str))
                         ELSE str
         IN  IF strValue = <<>> \/ strValue = <<"0">>
             THEN <<"0", "x">>
             ELSE IF isAddress
             THEN <<"0", "x">> \o ToLowerCase(PadSlice(strValue))
             ELSE IF Len(strValue) % 2 # 0
             THEN <<"0", "x">> \o ToLowerCase(<<"0">> \o strValue)
             ELSE <<"0", "x">> \o ToLowerCase(strValue)

\* the fields of an operation: the address, a number without a default, a
\* byte string whose default is '0x' (callData, paymasterAndData and signature
\* are formatted as initCode is) and a number whose default is '0xf4240' (the
\* other gas and fee fields are formatted the same way)
Fields == {"sender", "nonce", "initCode", "callGasLimit"}

\* formatUserOperation(userOp)
FormatUserOperation(userOp) ==
    [sender |-> Str(ToLowerCase(EnsureHex(userOp.sender, TRUE))),
     nonce |-> Str(EnsureHex(userOp.nonce, FALSE)),
     initCode |-> Str(EnsureHex(Or(userOp.initCode, <<"0", "x">>), FALSE)),
     callGasLimit |->
         Str(EnsureHex(Or(userOp.callGasLimit,
                          <<"0", "x", "f", "4", "2", "4", "0">>), FALSE))]

\* execute formats the operation of its params
format(userOp) ==
    /\ lastFormatted' = [called |-> TRUE, userOp |-> userOp,
                         formatted |-> FormatUserOperation(userOp)]
    /\ UNCHANGED <<inMemoryMempool, senderNonces, user_operations, bundles,
                   isExecuting, tick, lastResult, sent, restarts, faults, calls, rpc,
                   http, loading, estimated>>

\* the operations explored: one field carries a value, the others are absent;
\* one call is explored, formatUserOperation reads nothing but its argument
NextFormat ==
    /\ ~lastFormatted.called
    /\ \E field \in Fields, value \in Values :
          format([f \in Fields |-> IF f = field THEN value ELSE Absent])

SpecFormat == Init /\ [][NextFormat]_vars

\* ------------------------------------------------------------------
\* Gas estimation. The gas values are numbers here; the strings returned are
\* their decimal digits ('0xf4240' for the defaults of estimateGas).
Gas(pre, ver, call) ==
    [preVerificationGas |-> pre, verificationGasLimit |-> ver, callGasLimit |-> call]

\* BlockchainService.estimateUserOperationGas for callData of callDataLength
\* bytes: the estimate by length when the simulation is reported as a success,
\* 100000 three times otherwise; simple is the BlockchainService that answers
\* 100000 three times in every case
estimateUserOperationGas(callDataLength, outcome, simple) ==
    IF simple \/ ~simulateValidation(outcome).success
    THEN Gas(100000, 100000, 100000)
    ELSE LET preVerificationGas == 21000 + callDataLength * 16
         IN  Gas(preVerificationGas, preVerificationGas * 2, 100000)

\* GasPriceOracle.estimateGasForUserOp; callGasLimit = 0 stands for an
\* operation without callGasLimit
estimateGasForUserOp(callDataLength, callGasLimit) ==
    LET preVerificationGas == ((21000 + callDataLength * 16) * 12) \div 10
    IN  Gas(preVerificationGas, preVerificationGas * 2,
            IF callGasLimit = 0 THEN 100000 ELSE callGasLimit)

\* SendUserOperationMethod.estimateGas(params) as eth_estimateUserOperationGas
\* answers it: whatever is thrown inside, the EntryPoint rejection included,
\* is caught and answered by the defaults
estimateGas(entryPoint, callDataLength, outcome, simple) ==
    /\ estimated' =
          [asked |-> "eth_estimateUserOperationGas", entryPoint |-> entryPoint,
           callDataLength |-> callDataLength, outcome |-> outcome, simple |-> simple,
           code |-> 0,
           result |->
              IF toLowerCase(entryPoint) # toLowerCase(entryPointAddress)
              THEN Gas(1000000, 1000000, 1000000)
              ELSE estimateUserOperationGas(callDataLength, outcome, simple)]
    /\ UNCHANGED <<inMemoryMempool, senderNonces, user_operations, bundles,
                   isExecuting, tick, lastResult, sent, restarts, faults, calls, rpc,
                   http, loading, lastFormatted>>

\* the oracle asked directly
oracleEstimate(callDataLength, callGasLimit) ==
    /\ estimated' =
          [asked |-> "estimateGasForUserOp", entryPoint |-> entryPointAddress,
           callDataLength |-> callDataLength, outcome |-> "returned",
           simple |-> FALSE, code |-> 0,
           result |-> estimateGasForUserOp(callDataLength, callGasLimit)]
    /\ UNCHANGED <<inMemoryMempool, senderNonces, user_operations, bundles,
                   isExecuting, tick, lastResult, sent, restarts, faults, calls, rpc,
                   http, loading, lastFormatted>>

\* one estimation is explored: an estimation reads nothing an earlier one left
NextGas ==
    \/ \E e \in EntryPoints, n \in 0..MaxCallData, o \in StaticCallOutcomes,
          simple \in BOOLEAN :
             estimated = NotEstimated /\ estimateGas(e, n, o, simple)
    \/ \E n \in 0..MaxCallData, g \in {0, 50000} :
             estimated = NotEstimated /\ oracleEstimate(n, g)

SpecGas == Init /\ [][NextGas]_vars

\* ------------------------------------------------ a tick that has to end
\* provider.waitForTransaction(txHash) is called without a timeout: when the
\* transaction is never mined (dropped or replaced) the promise never settles
\* and the tick stays at its await
neverMined(t) ==
    /\ tick[t].pc = "waitForTransaction"
    /\ tick' = [tick EXCEPT ![t].pc = "neverSettles"]
    /\ UNCHANGED <<inMemoryMempool, senderNonces, user_operations, bundles,
                   isExecuting, lastResult, sent, restarts, faults, calls, rpc,
                   http, loading, lastFormatted, estimated>>

\* the steps of the tick of activation t after its start: every await of a
\* store or chain call settles, by a result or by an exception
TickAdvance(t) ==
    \/ \E ok \in BOOLEAN : getUserOpHash(t, ok)
    \/ \E ok \in BOOLEAN : handleOps(t, ok)
    \/ \E ok \in BOOLEAN : saveBundle(t, ok)
    \/ \E ok \in BOOLEAN : markAsSubmitted(t, ok)
    \/ \E o \in Receipts \cup {"throw"} : waitForTransaction(t, o)
    \/ \E ok \in BOOLEAN : updateBundleStatus(t, ok)
    \/ \E ok \in BOOLEAN : markAsConfirmed(t, ok)
    \/ \E ok \in BOOLEAN : markAsFailed(t, ok)

\* the handlers of a running process on a chain that may never mine a
\* transaction
NextWait ==
    \/ NextLive
    \/ \E t \in Callers : neverMined(t)

\* ... where every await that can settle does settle
SpecWait == Init /\ [][NextWait]_vars /\ \A t \in Callers : WF_vars(TickAdvance(t))

\* ------------------------------------- the timer draining a filled mempool
\* a mempool filled with MaxPending operations, at most MaxLowFee of them
\* offering the lower fee
InitDrain ==
    /\ InitPending
    /\ Len(inMemoryMempool) = MaxPending
    /\ Cardinality({ i \in 1..Len(inMemoryMempool) :
                        inMemoryMempool[i].op.maxFeePerGas = 1 }) <= MaxLowFee

\* the steps of the tick of activation t when every chain and store call
\* succeeds and the transaction is mined (or the wait yields null)
TickSucceeds(t) ==
    \/ getUserOpHash(t, TRUE)
    \/ handleOps(t, TRUE)
    \/ saveBundle(t, TRUE)
    \/ markAsSubmitted(t, TRUE)
    \/ \E o \in Receipts : waitForTransaction(t, o)
    \/ updateBundleStatus(t, TRUE)
    \/ markAsConfirmed(t, TRUE)
    \/ markAsFailed(t, TRUE)

\* the timer and the ticks it starts; nothing is admitted
NextDrain ==
    \/ \E t \in Callers : autoExecution(t)
    \/ \E t \in Callers : TickSucceeds(t)

\* the timer keeps firing and every await settles
SpecDrain ==
    /\ InitDrain
    /\ [][NextDrain]_vars
    /\ WF_vars(\E t \in Callers : autoExecution(t))
    /\ WF_vars(\E t \in Callers : TickSucceeds(t))

\* ===================================================== properties checked
\* status of the store record of hash h, "absent" when there is none
StatusIn(rows, h) ==
    IF RowExists(rows, h)
    THEN rows[CHOOSE i \in 1..Len(rows) : rows[i].user_op_hash = h].status
    ELSE "absent"

LegalTransitions == { <<"absent", "pending">>, <<"pending", "submitted">>,
                      <<"submitted", "confirmed">>, <<"submitted", "failed">>,
                      <<"pending", "removed">> }

Running == { t \in Callers : tick[t].pc # "idle" }

\* C1: the status the store holds for a userOpHash only ever changes along
\* pending->submitted, submitted->confirmed, submitted->failed or
\* pending->removed; an update to a status that is not a legal successor
\* leaves the record as it was.
C1_MonotonicStatus ==
    [][\A h \in Hashes :
          \/ StatusIn(user_operations', h) = StatusIn(user_operations, h)
          \/ <<StatusIn(user_operations, h), StatusIn(user_operations', h)>>
                \in LegalTransitions]_vars

\* C2: no record whose store status is confirmed, failed or removed has its
\* userOpHash in the by-hash map.
C2_TerminalNotInMempool ==
    \A h \in Hashes :
        StatusIn(user_operations, h) \in {"confirmed", "failed", "removed"}
            => ~MapHas(inMemoryMempool, h)

\* C3: every userOpHash in the in-memory mempool has a store record whose
\* status is pending.
C3_MempoolOnlyPending ==
    \A i \in 1..Len(inMemoryMempool) :
        StatusIn(user_operations, inMemoryMempool[i].key) = "pending"

\* C4: every store record with status pending has its hash in the by-hash
\* map and its nonce in the nonce set of its lowercased sender.
C4_PendingInBothMaps ==
    \A i \in 1..Len(user_operations) :
        user_operations[i].status = "pending"
            => /\ MapHas(inMemoryMempool, user_operations[i].user_op_hash)
               /\ user_operations[i].nonce
                     \in senderNonces[toLowerCase(user_operations[i].sender)]

\* C5: for every sender and nonce at most one store record with that sender
\* and nonce has status pending or submitted.
C5_UniqueSenderNonce ==
    \A i, j \in 1..Len(user_operations) :
        ( /\ i # j
          /\ user_operations[i].status \in {"pending", "submitted"}
          /\ user_operations[j].status \in {"pending", "submitted"}
          /\ user_operations[i].sender = user_operations[j].sender )
            => user_operations[i].nonce # user_operations[j].nonce

\* the operations passed to handleOps by transaction i
SentOps(i) == { sent[i][j] : j \in 1..Len(sent[i]) }

\* C6: no UserOperation is passed to handleOps by more than one bundle.
C6_SubmittedOnce ==
    \A i, j \in 1..Len(sent) : i # j => SentOps(i) \cap SentOps(j) = {}

\* C7: at most one tick is executing at any time and it holds the flag; an
\* executeBundle call that finds isExecuting set returns busy and changes
\* nothing else: not the mempool, the chain, the store, the flag or the
\* running tick.
C7_SingleFlight ==
    /\ [](Cardinality(Running) <= 1 /\ (Running # {} => isExecuting))
    /\ [][(isExecuting /\ lastResult' = "busy" /\ lastResult # "busy")
             => UNCHANGED <<inMemoryMempool, senderNonces, user_operations, bundles,
                            isExecuting, tick, sent>>]_vars

\* C7 witness: a call was answered busy while a tick is waiting for its receipt
C7_Witness ==
    /\ lastResult = "busy"
    /\ isExecuting
    /\ \E t \in Callers : tick[t].pc = "waitForTransaction"

\* a step of the tick of activation t
TickStep(t) == tick'[t] # tick[t] /\ restarts' = restarts

\* C8: when the wait for the receipt of a bundle with members yields null,
\* the tick records nothing: the member records and the bundle record stay
\* as they are (submitted).
C8_TimeoutRecordsNothing ==
    [][\A t \in Callers :
          (tick[t].receipt = NULL /\ tick[t].userOpHashes # <<>> /\ TickStep(t))
             => UNCHANGED <<user_operations, bundles>>]_vars

\* the tick of activation t ends on an exception thrown after handleOps
\* returned and before the receipt was obtained
FailsAfterSubmission(t) ==
    /\ tick[t].pc \in {"saveBundle", "markAsSubmitted", "waitForTransaction"}
    /\ TickStep(t)
    /\ tick'[t].pc = "idle"

\* C9: if an exception occurs after the bundle transaction was submitted and
\* before reconciliation, then at the end of the tick the bundle record
\* exists, every member is marked submitted, and the members are not in the
\* mempool for the next tick to find.
C9_FailureAfterSubmission ==
    [][\A t \in Callers :
          FailsAfterSubmission(t)
             => /\ \E b \in 1..Len(bundles') : bundles'[b].tx_hash = tick[t].txHash
                /\ \A j \in 1..Len(tick[t].userOps) :
                      /\ StatusIn(user_operations', tick[t].userOps[j].hash) = "submitted"
                      /\ ~MapHas(inMemoryMempool', tick[t].userOps[j].hash)]_vars

\* a step of executeBundle made before handleOps has returned a transaction:
\* the call itself (snapshot, or the throw on an empty mempool), an iteration
\* of the hashing loop, or the handleOps call
PreSubmissionStep ==
    /\ restarts' = restarts
    /\ \/ \E t \in Callers : tick[t].pc \in {"idle", "getUserOpHash", "handleOps"}
                             /\ tick'[t] # tick[t]
       \/ Running = {} /\ ~isExecuting /\ lastResult' = "error" /\ lastResult # "error"

\* C10: a tick that fails before the bundle transaction is submitted leaves
\* the mempool maps and every record of the store as they were: no step of
\* executeBundle up to and including a failing handleOps changes them.
C10_FailureBeforeSubmission ==
    [][PreSubmissionStep
          => UNCHANGED <<inMemoryMempool, senderNonces, user_operations, bundles>>]_vars

\* C10 witness: a tick has ended with an error because handleOps threw (the
\* only failed call so far, every mempool call was an add the store accepted)
\* and the admitted ops are still pending in the store and in the mempool
C10_Witness ==
    /\ lastResult = "error"
    /\ Running = {} /\ ~isExecuting
    /\ restarts = 0 /\ faults = 1 /\ sent = <<>>
    /\ user_operations # <<>>
    /\ calls = Len(user_operations)
    /\ Len(inMemoryMempool) = Len(user_operations)
    /\ \A i \in 1..Len(user_operations) :
          /\ user_operations[i].status = "pending"
          /\ MapHas(inMemoryMempool, user_operations[i].user_op_hash)

\* an add call whose store call failed: saveUserOperation was rejected by the
\* UNIQUE constraint on user_op_hash or by an I/O error
AddStoreFailed ==
    \E userOp \in UserOps, storeOk \in BOOLEAN :
        /\ admit(userOp, storeOk)
        /\ ~storeOk \/ RowExists(user_operations, userOp.hash)

\* C11: when the store call inside add fails, both in-memory maps are exactly
\* as they were before the call: the hash is not in the by-hash map and the
\* nonce is not in the sender's nonce set.
C11_AddRollsBack ==
    [][AddStoreFailed => UNCHANGED <<inMemoryMempool, senderNonces>>]_vars

\* C12: for every outcome of the simulateValidation static call the chain
\* service reports success if and only if the call reverted with the success
\* selector (ValidationResult), and the validator admits an op only when the
\* revert was the success selector.
C12_SuccessIffValidationResult ==
    \A r \in Requests :
        rpc[r].revert # "none"
            => /\ simulateValidation(rpc[r].revert).success
                     <=> rpc[r].revert = "ValidationResult"
               /\ rpc[r].validation.isValid => rpc[r].revert = "ValidationResult"

\* the operation the by-hash map holds for hash h
OpOf(h) == inMemoryMempool[MapGet(inMemoryMempool, h)].op

\* the mempool call the tick of activation t makes at position pc returns
\* (its store call succeeded) for an operation that is in the mempool and has
\* a store record
MarkReturns(t, pc) ==
    /\ tick[t].pc = pc
    /\ TickStep(t)
    /\ faults' = faults
    /\ MapHas(inMemoryMempool, tick[t].userOpHashes[tick[t].i])
    /\ RowExists(user_operations, tick[t].userOpHashes[tick[t].i])

\* C13: once markAsConfirmed returns for an op that was in the mempool, its
\* hash is absent from the by-hash map, its nonce is absent from the nonce set
\* of its sender, and its store record is confirmed.
C13_ConfirmedLeavesBothMaps ==
    [][\A t \in Callers :
          MarkReturns(t, "markAsConfirmed")
             => LET h == tick[t].userOpHashes[tick[t].i] IN
                /\ ~MapHas(inMemoryMempool', h)
                /\ OpOf(h).nonce \notin senderNonces'[toLowerCase(OpOf(h).sender)]
                /\ StatusIn(user_operations', h) = "confirmed"]_vars

\* C14: once markAsFailed returns for an op that was in the mempool, its hash
\* is absent from the by-hash map and its nonce is absent from the nonce set
\* of its sender, so no later add of an operation with that sender and nonce
\* meets a nonce check that rejects it.
C14_FailedFreesNonce ==
    [][\A t \in Callers :
          MarkReturns(t, "markAsFailed")
             => LET h == tick[t].userOpHashes[tick[t].i] IN
                /\ ~MapHas(inMemoryMempool', h)
                /\ \A u \in UserOps :
                      ( /\ toLowerCase(u.sender) = toLowerCase(OpOf(h).sender)
                        /\ u.nonce = OpOf(h).nonce )
                         => u.nonce \notin senderNonces'[toLowerCase(u.sender)]]_vars

\* C15: once remove(hash) returns for an op that was in the mempool, the
\* store status of the op is removed, its hash is absent from the by-hash map
\* and its nonce is absent from the nonce set of its sender; remove of a hash
\* that is not in the mempool changes neither the maps nor the store.
C15_RemovePostcondition ==
    [][\A h \in Hashes :
          remove(h, TRUE)
             => IF MapHas(inMemoryMempool, h)
                THEN /\ StatusIn(user_operations', h) = "removed"
                     /\ ~MapHas(inMemoryMempool', h)
                     /\ OpOf(h).nonce \notin senderNonces'[toLowerCase(OpOf(h).sender)]
                ELSE UNCHANGED <<inMemoryMempool, senderNonces, user_operations>>]_vars

\* position of op in the snapshot all
PosIn(all, op) == CHOOSE i \in 1..Len(all) : all[i] = op

\* op a goes before op b: a higher fee, or the same fee and admitted earlier
GoesBefore(all, a, b) ==
    \/ a.maxFeePerGas > b.maxFeePerGas
    \/ a.maxFeePerGas = b.maxFeePerGas /\ PosIn(all, a) < PosIn(all, b)

\* bundle is the first min(N, 10) operations of the snapshot all in
\* descending order of fee, equal fees in insertion order
IsFirstByFee(bundle, all) ==
    /\ Len(bundle) = IF Len(all) < MaxBundleSize THEN Len(all) ELSE MaxBundleSize
    /\ \A i \in 1..Len(bundle) : \E j \in 1..Len(all) : all[j] = bundle[i]
    /\ \A i, j \in 1..Len(bundle) : i < j => GoesBefore(all, bundle[i], bundle[j])
    /\ \A j \in 1..Len(all) :
          (\A i \in 1..Len(bundle) : bundle[i] # all[j])
             => \A i \in 1..Len(bundle) : GoesBefore(all, bundle[i], all[j])

\* C16: the operations a tick submits are exactly the first min(N, 10) of
\* its mempool snapshot sorted by maxFeePerGas descending, operations of
\* equal fee in insertion order.
C16_BundleSelection ==
    [][\A t \in Callers :
          (tick[t].pc = "handleOps" /\ Len(sent') = Len(sent) + 1)
             => IsFirstByFee(sent'[Len(sent')], getAll)]_vars

\* C16 witness: a tick has submitted ten of more than ten pending operations
\* and left out one that offers the same fee as one it took
C16_Witness ==
    /\ Len(sent) = 1
    /\ Len(sent[1]) = MaxBundleSize
    /\ Len(inMemoryMempool) > MaxBundleSize
    /\ \E j \in 1..Len(inMemoryMempool), i \in 1..Len(sent[1]) :
          /\ getAll[j] \notin SentOps(1)
          /\ getAll[j].maxFeePerGas = sent[1][i].maxFeePerGas
    /\ \E i, j \in 1..Len(sent[1]) : sent[1][i].maxFeePerGas # sent[1][j].maxFeePerGas

\* C17: an op whose hash could not be recomputed is dropped from the bundle:
\* it is not passed to the on-chain submission, so the operations a tick
\* submits are exactly the operations whose hashes the tick goes on to mark
\* submitted.
C17_HashFailureDropsOp ==
    [][\A t \in Callers :
          (tick[t].pc = "handleOps" /\ Len(sent') = Len(sent) + 1)
             => { sent'[Len(sent')][j].hash : j \in 1..Len(sent'[Len(sent')]) }
                   = { tick[t].userOpHashes[i] : i \in 1..Len(tick[t].userOpHashes) }]_vars

\* the tick of activation t ends with this step
TickEnds(t) == tick[t].pc # "idle" /\ TickStep(t) /\ tick'[t].pc = "idle"

\* at the end of this step the bundle of the tick of activation t and every
\* member of it have the given status and no member is in the mempool
Reconciled(t, status) ==
    /\ \E b \in 1..Len(bundles') :
          bundles'[b].tx_hash = tick[t].txHash /\ bundles'[b].status = status
    /\ \A j \in 1..Len(tick[t].userOps) :
          /\ StatusIn(user_operations', tick[t].userOps[j].hash) = status
          /\ ~MapHas(inMemoryMempool', tick[t].userOps[j].hash)

\* C18: a receipt with status 1 leads, at the end of the tick, to the bundle
\* being confirmed and every member confirmed and absent from the mempool; a
\* receipt with status 0 leads to the bundle being failed and every member
\* failed and absent from the mempool.
C18_ReceiptReconciled ==
    [][\A t \in Callers :
          TickEnds(t)
             => /\ tick[t].receipt = "1" => Reconciled(t, "confirmed")
                /\ tick[t].receipt = "0" => Reconciled(t, "failed")]_vars

\* C19: once the store has held confirmed for a hash, no later state of the
\* store shows pending for that hash: no step takes a record that is
\* confirmed, or in any other status than pending, to pending or deletes it.
C19_ConfirmedNeverPending ==
    [][\A h \in Hashes :
          StatusIn(user_operations, h) \notin {"absent", "pending"}
             => StatusIn(user_operations', h) \notin {"absent", "pending"}]_vars

\* C19 witness: the record of a hash is confirmed and the same operation has
\* been admitted again (after a restart), its insert rejected by the store
C19_Witness ==
    \E h \in Hashes :
        /\ StatusIn(user_operations, h) = "confirmed"
        /\ MapHas(inMemoryMempool, h)
        /\ restarts > 0

\* request r was answered with the hash of its operation: it was admitted
Admitted(r) == rpc[r].pc = "done" /\ rpc[r].response.result = rpc[r].userOp.hash

\* two operations of the same account with the same nonce, or the same hash
SamePairOrHash(a, b) ==
    \/ a.hash = b.hash
    \/ /\ toLowerCase(a.sender) = toLowerCase(b.sender)
       /\ BigInt(a.nonce) = BigInt(b.nonce)

\* C20: two admissions of the same (sender, nonce) pair, or of the same hash,
\* that run concurrently never both succeed: the second add to reach the
\* mempool is rejected and one record is created.
C20_AdmissionSerialized ==
    \A r1, r2 \in Requests :
        ( /\ r1 # r2
          /\ rpc[r1].pc = "done" /\ rpc[r1].validation.isValid
          /\ rpc[r2].pc = "done" /\ rpc[r2].validation.isValid
          /\ SamePairOrHash(rpc[r1].userOp, rpc[r2].userOp) )
            => /\ ~(Admitted(r1) /\ Admitted(r2))
               /\ Cardinality({ i \in 1..Len(user_operations) :
                                   user_operations[i].user_op_hash
                                      \in {rpc[r1].userOp.hash, rpc[r2].userOp.hash} }) = 1

\* two admitted requests never carry the same hash, nor the same sender and
\* the same nonce string
C20_SameStringSerialized ==
    \A r1, r2 \in Requests :
        (r1 # r2 /\ Admitted(r1) /\ Admitted(r2))
            => /\ rpc[r1].userOp.hash # rpc[r2].userOp.hash
               /\ ~( /\ toLowerCase(rpc[r1].userOp.sender) = toLowerCase(rpc[r2].userOp.sender)
                     /\ rpc[r1].userOp.nonce = rpc[r2].userOp.nonce )

\* the add call of request r returns or throws with this step
AddCallEnds(r) == rpc[r].pc = "add" /\ rpc'[r].pc = "done"

\* C21: add(uo, h) called twice in a row with the same op and hash: the first
\* call puts the op into the mempool, which grows by one; the second call,
\* finding the hash in the mempool, is rejected with the duplicate error and
\* leaves the size as it is, so both calls together add exactly one.
C21_AddTwice ==
    [][\A r \in Requests :
          AddCallEnds(r)
             => IF MapHas(inMemoryMempool, rpc[r].userOp.hash)
                THEN /\ rpc'[r].response.message = "UserOperation already in mempool"
                     /\ UNCHANGED <<inMemoryMempool, senderNonces, user_operations>>
                ELSE rpc[r].userOp.nonce \notin senderNonces[toLowerCase(rpc[r].userOp.sender)]
                        => /\ MapHas(inMemoryMempool', rpc[r].userOp.hash)
                           /\ getPendingCount' = getPendingCount + 1]_vars

\* C21 witness: two requests carried the same operation; one was admitted, the
\* other rejected as a duplicate, and the mempool holds the one operation
C21_Witness ==
    \E r1, r2 \in Requests :
        /\ r1 # r2
        /\ rpc[r1].userOp = rpc[r2].userOp
        /\ Admitted(r1)
        /\ rpc[r2].pc = "done"
        /\ rpc[r2].response.message = "UserOperation already in mempool"
        /\ getPendingCount = 1

\* C22: add of an op whose nonce is already in the nonce set of its
\* lowercased sender, under a hash the mempool does not hold, is rejected
\* with the nonce error, and the rejection leaves both maps and the store
\* unchanged.
C22_NonceReuseRejected ==
    [][\A r \in Requests :
          ( /\ AddCallEnds(r)
            /\ ~MapHas(inMemoryMempool, rpc[r].userOp.hash)
            /\ rpc[r].userOp.nonce \in senderNonces[toLowerCase(rpc[r].userOp.sender)] )
             => /\ rpc'[r].response.message = "Nonce already used"
                /\ UNCHANGED <<inMemoryMempool, senderNonces, user_operations>>]_vars

\* C22 witness: a request was rejected with the nonce error while the mempool
\* holds another operation, of a different hash, with its sender and nonce
C22_Witness ==
    \E r \in Requests :
        /\ rpc[r].pc = "done"
        /\ rpc[r].response.message = "Nonce already used"
        /\ ~MapHas(inMemoryMempool, rpc[r].userOp.hash)
        /\ \E i \in 1..Len(inMemoryMempool) :
              /\ inMemoryMempool[i].key # rpc[r].userOp.hash
              /\ inMemoryMempool[i].op.nonce = rpc[r].userOp.nonce
              /\ toLowerCase(inMemoryMempool[i].op.sender) = toLowerCase(rpc[r].userOp.sender)

\* C23: an op whose nonce is lower than the chain's current nonce for its
\* sender is rejected by validate with nonce-too-low and is not added to the
\* mempool or the store; an op whose nonce is equal to or greater than the
\* current nonce is not rejected by the nonce check.
C23_NonceTooLow ==
    \A r \in Requests :
        rpc[r].current # -1
            => IF BigInt(rpc[r].userOp.nonce) < rpc[r].current
               THEN /\ rpc[r].pc = "done"
                    /\ rpc[r].validation.error = "Nonce too low"
                    /\ ~Admitted(r)
               ELSE rpc[r].validation.error # "Nonce too low"
\* the record shows that the method was the last one applied to it
AlreadyApplied(method, h) ==
    \E i \in 1..Len(user_operations) :
       LET row == user_operations[i] IN
       /\ row.user_op_hash = h
       /\ \/ method = "markAsSubmitted" /\ row.status = "submitted" /\ row.tx_hash = txHash
          \/ method = "markAsConfirmed" /\ row.status = "confirmed" /\ row.gas_used = gasUsed
          \/ method = "markAsFailed" /\ row.status = "failed"
                                     /\ row.error_message = errorMessage
          \/ method = "remove" /\ row.status = "removed"

\* C24: calling markAsSubmitted, markAsConfirmed, markAsFailed or remove a
\* second time with the same arguments changes nothing: the store record with
\* its status, timestamps and on-submission fields, and both mempool maps,
\* stay as the first call left them
C24_ReapplyIsNoOp ==
    [][\A method \in Methods, h \in Hashes, now \in Times :
          (AlreadyApplied(method, h) /\ StatusCall(method, h, now))
              => UNCHANGED <<inMemoryMempool, senderNonces, user_operations>>]_vars


\* a batch element that is a JSON-RPC 2.0 request carrying an id
WellFormed(request) ==
    /\ request.object
    /\ request.method # undefined
    /\ request.jsonrpc = "2.0"
    /\ request.id # undefined

\* C25: a non-empty batch is answered by an array of the same length, and
\* every well-formed request is answered at its position with its own id,
\* whatever id it carries
C25_BatchIds ==
    Len(http.body) > 0 =>
        /\ http.isArray
        /\ Len(http.responses) = Len(http.body)
        /\ \A i \in 1..Len(http.body) :
              WellFormed(http.body[i]) => http.responses[i].id = http.body[i].id


\* the request was turned down by a policy check: the EntryPoint, the nonce
\* against the chain, the nonce against the mempool, or the duplicate check
PolicyRejected(r) ==
    /\ rpc[r].pc = "done"
    /\ \/ rpc[r].response.message \in {"Unsupported EntryPoint",
                                        "UserOperation already in mempool",
                                        "Nonce already used"}
       \/ rpc[r].validation.error = "Nonce too low"

\* C26: every policy rejection of eth_sendUserOperation (unsupported
\* EntryPoint, nonce too low, nonce reuse, duplicate in the mempool) reaches
\* the caller with error code -32500
C26_PolicyRejectionCode ==
    \A r \in Requests : PolicyRejected(r) => rpc[r].response.code = -32500


\* a chain call of the validation failed: the hash could not be computed, the
\* nonce could not be read, or the simulation call failed without revert data
ChainCallFailed(r) ==
    \/ rpc[r].validation.error \in {"Failed to compute UserOperation hash",
                                     "Failed to check nonce"}
    \/ rpc[r].revert = "nodata"

\* C27: when a chain call fails during the validation of an operation, the
\* caller of eth_sendUserOperation receives error code -32603 and the
\* operation is not admitted
C27_ChainFailureCode ==
    \A r \in Requests :
       (rpc[r].pc = "done" /\ ChainCallFailed(r)) =>
           /\ rpc[r].response.code = -32603
           /\ ~Admitted(r)


\* C28: a request whose entryPoint differs after lowercasing from the
\* configured EntryPoint is answered with code -32500 and a message starting
\* with Unsupported EntryPoint, the validator is not called and the mempool
\* and the store stay as they are; an entryPoint that differs only in letter
\* case is accepted
C28_UnsupportedEntryPoint ==
    [][\A r \in Requests, u \in RpcOps, e \in EntryPoints, f \in BOOLEAN :
          execute(r, u, e, f) =>
              IF toLowerCase(e) # toLowerCase(entryPointAddress)
              THEN /\ rpc'[r].pc = "done"
                   /\ rpc'[r].response = ErrorResponse(-32500, "Unsupported EntryPoint")
                   /\ rpc'[r].validation = NoValidation
                   /\ UNCHANGED <<inMemoryMempool, senderNonces, user_operations>>
              ELSE rpc'[r].response.message # "Unsupported EntryPoint"]_vars

\* one request was turned down for its EntryPoint and another was admitted
C28_Witness ==
    \E r1, r2 \in Requests :
       /\ rpc[r1].pc = "done"
       /\ rpc[r1].response.message = "Unsupported EntryPoint"
       /\ Admitted(r2)


\* every row the store lists as pending, whatever their number
PendingRows == SelectSeq(user_operations, LAMBDA r : r.status = "pending")

\* an admission or the start of a tick
ObservesMempool ==
    \/ calls' = calls + 1
    \/ \E t \in Callers : tick[t].pc = "idle" /\ tick'[t].pc # "idle"
    \/ lastResult' # lastResult

\* C29: when the reload of the startup ends, both maps hold exactly the
\* records the store lists as pending, every one of them, and no admission or
\* tick observes the mempool before the reload has ended
C29_ReloadComplete ==
    [][/\ (loading /\ ~loading' /\ faults' = faults) =>
             /\ { inMemoryMempool'[i].key : i \in 1..Len(inMemoryMempool') } =
                   { PendingRows[i].user_op_hash : i \in 1..Len(PendingRows) }
             /\ senderNonces' = LoadedNonces(PendingRows)
       /\ ObservesMempool => ~loading]_vars


\* C30: formatting an operation that was formatted gives the same operation,
\* field by field
C30_FormatIdempotent ==
    lastFormatted.called =>
        \A f \in Fields :
           FormatUserOperation(lastFormatted.formatted)[f] = lastFormatted.formatted[f]

\* the same for operations whose strings are made of ASCII characters
C30_FormatIdempotentAscii ==
    (/\ lastFormatted.called
     /\ \A f \in Fields : \A i \in 1..Len(lastFormatted.userOp[f].s) :
           lastFormatted.userOp[f].s[i] # "U+0130") =>
        \A f \in Fields :
           FormatUserOperation(lastFormatted.formatted)[f] = lastFormatted.formatted[f]


\* an estimation answered for an operation sent with a supported EntryPoint
EstimatedByRpc ==
    /\ estimated.asked = "eth_estimateUserOperationGas"
    /\ toLowerCase(estimated.entryPoint) = toLowerCase(entryPointAddress)

\* C31: the estimate for callData of L bytes is preVerificationGas =
\* (21000 + 16 * L) * 1.2, verificationGasLimit = 2 * preVerificationGas and
\* callGasLimit = 100000 (the factor is written in tenths)
C31_GasFormula ==
    EstimatedByRpc =>
        /\ estimated.result.preVerificationGas * 10
               = (21000 + 16 * estimated.callDataLength) * 12
        /\ estimated.result.verificationGasLimit
               = 2 * estimated.result.preVerificationGas
        /\ estimated.result.callGasLimit = 100000

\* C35: an estimation asked with an entryPoint that differs after lowercasing
\* from the configured one is answered by a JSON-RPC error and not by a gas
\* estimate
C35_EstimateUnsupportedEntryPoint ==
    (/\ estimated.asked = "eth_estimateUserOperationGas"
     /\ toLowerCase(estimated.entryPoint) # toLowerCase(entryPointAddress))
        => estimated.code # 0


\* the steps of a request in the order of the code: format (inside execute),
\* hash, nonce, simulation, and then add
ValidateOrder ==
    { <<"idle", "done">>, <<"idle", "getUserOpHash">>,
      <<"getUserOpHash", "done">>, <<"getUserOpHash", "getNonce">>,
      <<"getNonce", "done">>, <<"getNonce", "simulateValidation">>,
      <<"simulateValidation", "done">>, <<"simulateValidation", "add">> }

\* C32: validate runs format, hash, nonce and simulation in this order and
\* stops at the first failure: a format failure is returned before any chain
\* call, a failure of the hash step returns no hash, a failure of the nonce
\* or of the simulation step returns the hash computed, and the operation is
\* valid only when the simulation, the last step, has passed
C32_ValidateOrder ==
    [][\A r \in Requests :
          LET a == rpc[r]
              b == rpc'[r]
          IN  a # b =>
              /\ <<a.pc, b.pc>> \in ValidateOrder
              /\ b.validation.error = "Invalid numeric value for nonce" => a.pc = "idle"
              /\ (a.pc \in {"idle", "getUserOpHash"} /\ b.pc = "done") =>
                    /\ ~b.validation.isValid
                    /\ b.validation.userOpHash = "undefined"
              /\ (a.pc \in {"getNonce", "simulateValidation"} /\ b.pc = "done") =>
                    /\ ~b.validation.isValid
                    /\ b.validation.userOpHash = a.userOp.hash
              /\ b.validation.isValid =>
                    a.pc = "simulateValidation" /\ b.pc = "add"]_vars

\* a validation stopped by the simulation, with the hash, after the nonce
\* check had passed
C32_Witness ==
    /\ rpc[1].pc = "done"
    /\ rpc[1].revert = "FailedOp"
    /\ rpc[1].current # -1
    /\ rpc[1].validation.userOpHash = rpc[1].userOp.hash
    /\ ~rpc[1].validation.isValid


\* C33: a bundle record is created as submitted and changes status at most
\* once, to confirmed or to failed; a confirmed or failed bundle never changes
\* again, and no bundle is left submitted when its tick ends with an error
C33_BundleStatus ==
    [][/\ Len(bundles') >= Len(bundles)
       /\ \A j \in 1..Len(bundles') :
             IF j > Len(bundles)
             THEN bundles'[j].status = "submitted"
             ELSE \/ bundles'[j].status = bundles[j].status
                  \/ /\ bundles[j].status = "submitted"
                     /\ bundles'[j].status \in {"confirmed", "failed"}
       /\ \A t \in Callers :
             (TickEnds(t) /\ lastResult' = "error") =>
                 \A j \in 1..Len(bundles') :
                    bundles'[j].tx_hash = tick[t].txHash
                        => bundles'[j].status # "submitted"]_vars


\* a batch element that is no JSON-RPC 2.0 request
Malformed(request) ==
    \/ ~request.object
    \/ request.method = undefined
    \/ request.jsonrpc # "2.0"

\* C34: a malformed request is answered with -32600 and, when it carries no
\* usable id, with id null; an empty batch is answered by one -32600 error
C34_MalformedRequest ==
    http # NoExchange =>
        IF Len(http.body) = 0
        THEN /\ ~http.isArray
             /\ Len(http.responses) = 1
             /\ http.responses[1].code = -32600
        ELSE \A i \in 1..Len(http.body) :
                Malformed(http.body[i]) =>
                    /\ http.responses[i].code = -32600
                    /\ http.body[i].id \in {NULL, undefined}
                          => http.responses[i].id = NULL


\* C36: an operation whose remove has completed (its record is removed) is in
\* no transaction sent afterwards and its status stays removed, also when the
\* remove came while a tick held the operation in its snapshot
C36_RemovedStaysOut ==
    [][\A h \in Hashes :
          StatusIn(user_operations, h) = "removed" =>
              /\ StatusIn(user_operations', h) = "removed"
              /\ Len(sent') > Len(sent) =>
                    \A j \in 1..Len(sent'[Len(sent')]) : sent'[Len(sent')][j].hash # h]_vars


\* C37: once handleOps has returned a transaction hash, the store holds a
\* bundle record with that hash and every operation of the transaction is
\* submitted or later when the tick ends, also when saveBundle or a
\* markAsSubmitted call fails
C37_SubmissionRecorded ==
    [][\A t \in Callers :
          (TickEnds(t) /\ tick[t].txHash # 0) =>
              /\ \E b \in 1..Len(bundles') : bundles'[b].tx_hash = tick[t].txHash
              /\ \A j \in 1..Len(tick[t].userOps) :
                    StatusIn(user_operations', tick[t].userOps[j].hash)
                        \in {"submitted", "confirmed", "failed"}]_vars


\* C38: when a tick has returned, its bundle record and the records of the
\* members (those the store holds) agree: all members are confirmed if the
\* bundle is confirmed and all are failed if it is failed, also when a store
\* update fails part-way
C38_BundleMembersAgree ==
    [][\A t \in Callers :
          TickEnds(t) =>
              \A b \in 1..Len(bundles') :
                 (/\ bundles'[b].tx_hash = tick[t].txHash
                  /\ bundles'[b].status \in {"confirmed", "failed"}) =>
                     \A j \in 1..Len(tick[t].userOpHashes) :
                        RowExists(user_operations', tick[t].userOpHashes[j]) =>
                            StatusIn(user_operations', tick[t].userOpHashes[j])
                                = bundles'[b].status]_vars


\* C39: isExecuting is set only while a tick is in flight, and every tick
\* that started ends (then the flag is reset), so no tick is dropped as busy
\* on account of a tick that will never end
C39_TickEnds ==
    /\ [](isExecuting => Running # {})
    /\ \A t \in Callers : (tick[t].pc # "idle") ~> (tick[t].pc = "idle")


\* C40: when the timer keeps firing, every chain and store call succeeds and
\* nothing is admitted, every operation in the mempool eventually leaves it
\* with a terminal status (confirmed or failed), the operations that were
\* not among the ten highest fees included
C40_MempoolDrains ==
    \A i \in 1..MaxPending :
       MapHas(inMemoryMempool, PendingOp(i, 1).hash)
          ~> (/\ ~MapHas(inMemoryMempool, PendingOp(i, 1).hash)
              /\ StatusIn(user_operations, PendingOp(i, 1).hash)
                    \in {"confirmed", "failed"})

\* more than ten operations were pending, the one offering the lower fee was
\* left for a second bundle, and all have left the mempool with a terminal
\* status
C40_Witness ==
    /\ Len(user_operations) > MaxBundleSize
    /\ Len(sent) = 2
    /\ \E i \in 1..Len(user_operations) :
          /\ user_operations[i].maxFeePerGas = 1
          /\ \E op \in SentOps(2) : op.hash = user_operations[i].user_op_hash
    /\ inMemoryMempool = <<>>
    /\ \A i \in 1..Len(user_operations) :
          user_operations[i].status \in {"confirmed", "failed"}

====
